---- MODULE Spec2Model ----
(***************************************************************************)
(* Model of the raleigh-permits processing core: the file-backed response  *)
(* cache (shared/cache.py), the permit merge and the housing-type          *)
(* classifier (blueprints/housing.py).                                     *)
(*                                                                         *)
(* Time is counted in hours.  A file's content is the sequence of JSON     *)
(* tokens json.dump wrote to it; a string attribute of a permit is the     *)
(* sequence of its characters.                                             *)
(***************************************************************************)
EXTENDS Integers, Sequences, FiniteSets, TLC

VARIABLES
    files,              \* cache directory: path -> [exists, content, mtime]
    now,                \* datetime.now(), in hours
    stored,             \* history: per key, what the last store or clear left
    res,                \* the last cache operation and what it returned
    wpc, wkey, wval, wpos,  \* concurrent save_to_cache calls: position, arguments, file offset
    rpc, rkey, rdur,    \* a concurrent load_from_cache call: position, arguments
    building_permits,   \* merge_permit_sources: first argument's features
    adu_permits,        \* merge_permit_sources: second argument's features
    merged,             \* merge_permit_sources: [done, features]
    props,              \* classify_housing_type: the permit's properties
    housing_type,       \* classify_housing_type: [done, label]
    lat, lng,           \* a point: the arguments of the geographic lookups
    zip_code,           \* get_zip_for_coords: [done, zip]
    dist_to_downtown,   \* haversine_distance from the point to DOWNTOWN_CENTER
    min_dist,           \* least haversine_distance from the point to a corridor waypoint
    transit_score,      \* calculate_transit_score: [done, score]
    fetch_fn,           \* the fetch function called last
    fetch_pc,           \* its position: idle, loop (between page requests) or done
    offset,             \* fetch_historical_permits: resultOffset of the next request
    all_features,       \* fetch_historical_permits: number of features collected
    requested,          \* history: the offsets requested by this call
    received,           \* history: the kind of each response this call received
    fetch_out,          \* what the call returned: [kind, features]
    area_plans_cache,   \* _area_plans_cache: None or the document's feature count
    bus_stops_cache,    \* _bus_stops_cache: None or the document's feature count
    features,           \* the merged feature collection's features
    args,               \* request.args: year, housing_type, zip, urban_ring
    processed,          \* process_permits: [done, out]
    response,           \* get_residential_permits: [done, out]
    raw_data,           \* fetch_commercial_permits: the features returned
    permits_response,   \* business get_permits: [done, out]
    FRED_API_KEY,       \* economy.py's FRED_API_KEY, read from the environment at start-up
    fred_data,          \* history: the last fetch_all_fred_data call: [hit, requests, data]
    labor_response,     \* get_labor_market: [done, out]
    req_trace,          \* history: the last permit request: [endpoint, path, steps, failed, data]
    req_response,       \* the last permit request's outcome: [done, out]
    req_refresh,        \* history: the last refresh=true request and whether its entry still stands: [last, set, over, data]
    zbp_call,           \* the last fetch_census_cbp_zip call: [done, calls (modulo 2), cached, hit, requests, out]
    issued,             \* the issueddate fields of the features given to process_permits, in days since 1970-01-01
    timeline            \* the timeline of process_permits: [done, labels, values]

cacheVars == <<files, now, stored, res>>
concVars == <<wpc, wkey, wval, wpos, rpc, rkey, rdur>>
mergeVars == <<building_permits, adu_permits, merged>>
classVars == <<props, housing_type>>
geoVars == <<lat, lng, zip_code, dist_to_downtown, min_dist, transit_score>>
fetchVars == <<fetch_fn, fetch_pc, offset, all_features, requested, received,
    fetch_out, area_plans_cache, bus_stops_cache>>
procVars == <<features, args, processed, response>>
bizVars == <<raw_data, permits_response>>
fredVars == <<FRED_API_KEY, fred_data, labor_response>>
reqVars == <<req_trace, req_response, req_refresh>>
zbpVars == <<zbp_call>>
tlVars == <<issued, timeline>>
extVars == <<geoVars, fetchVars, procVars, bizVars, fredVars, reqVars, zbpVars, tlVars>>
geoRest == <<cacheVars, concVars, mergeVars, classVars, fetchVars, procVars, bizVars, fredVars, reqVars, zbpVars, tlVars>>
fetchRest == <<cacheVars, concVars, mergeVars, classVars, geoVars, procVars, bizVars, fredVars, reqVars, zbpVars, tlVars>>
procRest == <<cacheVars, concVars, mergeVars, classVars, geoVars, fetchVars, bizVars, fredVars, reqVars, zbpVars, tlVars>>
bizRest == <<cacheVars, concVars, mergeVars, classVars, geoVars, fetchVars, procVars, fredVars, reqVars, zbpVars, tlVars>>
fredRest == <<cacheVars, concVars, mergeVars, classVars, geoVars, fetchVars, procVars, bizVars, reqVars, zbpVars, tlVars>>
fredFrame == <<concVars, mergeVars, classVars, geoVars, fetchVars, procVars, bizVars, reqVars, zbpVars, tlVars>>
reqRest == <<cacheVars, concVars, mergeVars, classVars, geoVars, fetchVars, procVars, bizVars, fredVars, zbpVars, tlVars>>
reqFrame == <<concVars, mergeVars, classVars, geoVars, fetchVars, procVars, bizVars, fredVars, zbpVars, tlVars>>
zbpRest == <<cacheVars, concVars, mergeVars, classVars, geoVars, fetchVars, procVars, bizVars, fredVars, reqVars, tlVars>>
zbpFrame == <<concVars, mergeVars, classVars, geoVars, fetchVars, procVars, bizVars, fredVars, reqVars, tlVars>>
tlRest == <<cacheVars, concVars, mergeVars, classVars, geoVars, fetchVars, procVars, bizVars, fredVars, reqVars, zbpVars>>
vars == <<files, now, stored, res, wpc, wkey, wval, wpos, rpc, rkey, rdur,
          building_permits, adu_permits, merged, props, housing_type, lat,
          lng, zip_code, dist_to_downtown, min_dist, transit_score,
          fetch_fn, fetch_pc, offset, all_features, requested, received,
          fetch_out, area_plans_cache, bus_stops_cache, features, args,
          processed, response, raw_data, permits_response, FRED_API_KEY,
          fred_data, labor_response, req_trace, req_response, req_refresh,
          zbp_call, issued, timeline>>

(***************************************************************************)
(* Bounds of the model.                                                    *)
(***************************************************************************)
MaxTime == 2
MaxDuration == 2
MaxFeatures == 2

Min(a, b) == IF a < b THEN a ELSE b

(***************************************************************************)
(* JSON documents.  A Python value json.dump accepts is an atom, a list or *)
(* a dict with string keys; every value is a record of the same shape.     *)
(***************************************************************************)
Atom(a) == [t |-> "atom", a |-> a, keys |-> <<>>, items |-> <<>>]
List(items) == [t |-> "list", a |-> "", keys |-> <<>>, items |-> items]
Dict(keys, items) == [t |-> "dict", a |-> "", keys |-> keys, items |-> items]
NoVal == [t |-> "none", a |-> "", keys |-> <<>>, items |-> <<>>]

\* The strings of the documents the endpoints store.
DocToks ==
    {"\"unemployment_rate\"", "\"real_gdp\"", "\"category\"", "\"observations\"",
     "\"error\"", "\"latest_value\"", "\"latest_date\"", "\"date\"", "\"value\"",
     "\"labor\"", "\"growth\"", "\"FRED_API_KEY not configured\"",
     "\"ConnectionError\"", "\"HTTPError\"", "\"2015-01-01\"", "\"2015-02-01\"",
     "\"type\"", "\"features\"", "\"FeatureCollection\"", "\"properties\"",
     "\"permitnum\"", "\"src\"", "\"A\"", "\"B\"", "\"C\"", "\"building\"",
     "\"adu\"", "\"27601\"", "\"27603\"", "\"establishments\"", "\"employees\"",
     "\"payroll\"", "\"urban_ring\"", "\"Downtown\"", "\"Near Downtown\""}
StrToks == {"\"a\"", "\"b\""} \cup DocToks
AtomToks == StrToks \cup {"0", "1", "2", "null"}
Structural == {"[", "]", "{", "}", ",", ":"}

\* json.dump(data, f): the tokens written, in order.
RECURSIVE Dump(_), DumpItems(_, _), DumpMembers(_, _, _)
DumpItems(items, i) ==
    IF i > Len(items) THEN <<>>
    ELSE (IF i > 1 THEN <<",">> ELSE <<>>) \o Dump(items[i])
             \o DumpItems(items, i + 1)
DumpMembers(keys, items, i) ==
    IF i > Len(items) THEN <<>>
    ELSE (IF i > 1 THEN <<",">> ELSE <<>>) \o <<keys[i], ":">> \o Dump(items[i])
             \o DumpMembers(keys, items, i + 1)
Dump(v) ==
    IF v.t = "atom" THEN <<v.a>>
    ELSE IF v.t = "list" THEN <<"[">> \o DumpItems(v.items, 1) \o <<"]">>
    ELSE <<"{">> \o DumpMembers(v.keys, v.items, 1) \o <<"}">>

\* json.load(f): a recursive-descent parse of the whole content.
ParseFail == [ok |-> FALSE, val |-> NoVal, rest |-> <<>>]
ParseOk(v, rest) == [ok |-> TRUE, val |-> v, rest |-> rest]
RECURSIVE ParseValue(_), ParseElements(_, _), ParseMembers(_, _, _)
ParseValue(toks) ==
    IF toks = <<>> THEN ParseFail
    ELSE LET h == Head(toks)
             t == Tail(toks)
         IN  IF h = "["
             THEN IF t # <<>> /\ Head(t) = "]"
                  THEN ParseOk(List(<<>>), Tail(t))
                  ELSE ParseElements(t, <<>>)
             ELSE IF h = "{"
             THEN IF t # <<>> /\ Head(t) = "}"
                  THEN ParseOk(Dict(<<>>, <<>>), Tail(t))
                  ELSE ParseMembers(t, <<>>, <<>>)
             ELSE IF h \in AtomToks THEN ParseOk(Atom(h), t)
             ELSE ParseFail
ParseElements(toks, acc) ==
    LET r == ParseValue(toks)
    IN  IF ~r.ok \/ r.rest = <<>> THEN ParseFail
        ELSE IF Head(r.rest) = "]"
             THEN ParseOk(List(Append(acc, r.val)), Tail(r.rest))
        ELSE IF Head(r.rest) = ","
             THEN ParseElements(Tail(r.rest), Append(acc, r.val))
        ELSE ParseFail
ParseMembers(toks, ks, vs) ==
    IF Len(toks) < 2 THEN ParseFail
    ELSE IF Head(toks) \notin StrToks \/ toks[2] # ":" THEN ParseFail
    ELSE LET r == ParseValue(SubSeq(toks, 3, Len(toks)))
         IN  IF ~r.ok \/ r.rest = <<>> THEN ParseFail
             ELSE IF Head(r.rest) = "}"
                  THEN ParseOk(Dict(Append(ks, Head(toks)), Append(vs, r.val)),
                               Tail(r.rest))
             ELSE IF Head(r.rest) = ","
                  THEN ParseMembers(Tail(r.rest), Append(ks, Head(toks)),
                                    Append(vs, r.val))
             ELSE ParseFail

\* What a call returns: None, a value, or an exception.
RetNone == [kind |-> "none", val |-> NoVal]
RetValue(v) == [kind |-> "value", val |-> v]
RetRaise == [kind |-> "raise", val |-> NoVal]

\* json.load raises JSONDecodeError on an empty, truncated or over-long document.
json_load(content) ==
    LET r == ParseValue(content)
    IN  IF r.ok /\ r.rest = <<>> THEN RetValue(r.val) ELSE RetRaise

\* The payloads stored here: {}, [1, 2] and {"a": [1]}.
Payloads ==
    { Dict(<<>>, <<>>),
      List(<<Atom("1"), Atom("2")>>),
      Dict(<<"\"a\"">>, <<List(<<Atom("1")>>)>>) }

(***************************************************************************)
(* shared/cache.py                                                         *)
(***************************************************************************)
Keys == {"k1", "k2"}
DEFAULT_CACHE_DURATION_HOURS == 24
\* The freshness windows callers ask for (6, 12, 24 and 168 hours in the code).
Durations == (1..MaxDuration) \cup {DEFAULT_CACHE_DURATION_HOURS}

get_cache_path(cache_key) == <<"cache", cache_key, ".json">>
Paths == {get_cache_path(k) : k \in Keys}
NoFile == [exists |-> FALSE, content |-> <<>>, mtime |-> 0]

\* Variants with a slip, used to test that the properties below detect it.
is_cache_valid_le(cache_path, duration_hours) ==
    IF ~files[cache_path].exists THEN FALSE
    ELSE (now - files[cache_path].mtime) <= duration_hours
is_cache_valid_global(cache_path, duration_hours) ==
    IF ~files[cache_path].exists THEN FALSE
    ELSE (now - files[cache_path].mtime) < DEFAULT_CACHE_DURATION_HOURS

is_cache_valid(cache_path, duration_hours) ==
    IF ~files[cache_path].exists THEN FALSE
    ELSE (now - files[cache_path].mtime) < duration_hours

load_from_cache(cache_key, duration_hours) ==
    LET cache_path == get_cache_path(cache_key)
    IN  IF is_cache_valid(cache_path, duration_hours)
        THEN json_load(files[cache_path].content)
        ELSE RetNone

open_no_trunc(fs, cache_path) ==
    [fs EXCEPT ![cache_path] =
        [exists |-> TRUE, content |-> fs[cache_path].content, mtime |-> now]]

\* open(cache_path, 'w'): create or truncate.
open_w(fs, cache_path) ==
    [fs EXCEPT ![cache_path] = [exists |-> TRUE, content |-> <<>>, mtime |-> now]]

\* write(2) of toks at offset off; a gap left by a truncation reads as NUL.
RECURSIVE Nuls(_)
Nuls(n) == IF n <= 0 THEN <<>> ELSE <<"NUL">> \o Nuls(n - 1)
write_at(fs, cache_path, off, toks) ==
    LET old == fs[cache_path].content
        pre == SubSeq(old, 1, Min(off, Len(old))) \o Nuls(off - Len(old))
        post == SubSeq(old, off + Len(toks) + 1, Len(old))
    IN  [fs EXCEPT ![cache_path] =
            [exists |-> TRUE, content |-> pre \o toks \o post, mtime |-> now]]

\* save_to_cache run to completion with nothing interleaved.
save_to_cache(fs, cache_key, data) ==
    LET cache_path == get_cache_path(cache_key)
    IN  write_at(open_w(fs, cache_path), cache_path, 0, Dump(data))

clear_cache_all(fs, cache_key) ==
    [p \in DOMAIN fs |-> IF p[3] = ".json" THEN NoFile ELSE fs[p]]

clear_cache(fs, cache_key) ==
    IF cache_key # "" THEN
        LET cache_path == get_cache_path(cache_key)
        IN  IF fs[cache_path].exists
            THEN [fs EXCEPT ![cache_path] = NoFile]
            ELSE fs
    ELSE [p \in DOMAIN fs |-> IF p[3] = ".json" THEN NoFile ELSE fs[p]]

(***************************************************************************)
(* The cache as one thread uses it: every call runs to completion.  A      *)
(* store can also be cut short (the process is killed, or json.dump raises *)
(* part-way), which leaves the file truncated to what had been flushed.    *)
(***************************************************************************)
\* prior: the payload the key held when a store or a clear began.
Op(op, k, d, out, v, prior) ==
    [op |-> op, key |-> k, dur |-> d, at |-> now, out |-> out, v |-> v,
     prior |-> prior]
NoOp ==
    [op |-> "init", key |-> "", dur |-> 0, at |-> 0, out |-> RetNone, v |-> NoVal,
     prior |-> NoVal]

NotStored == [kind |-> "none", v |-> NoVal, at |-> 0]
Saved(v) == [kind |-> "saved", v |-> v, at |-> now]
Partial == [kind |-> "partial", v |-> NoVal, at |-> now]
Entry(k) == stored[k]
Age(k, t) == t - stored[k].at

Writers == {"w1", "w2"}

InitCache ==
    /\ files = [p \in Paths |-> NoFile]
    /\ now = 0
    /\ stored = [k \in Keys |-> NotStored]
    /\ res = NoOp
InitConc ==
    /\ wpc = [w \in Writers |-> "idle"]
    /\ wkey = [w \in Writers |-> ""]
    /\ wval = [w \in Writers |-> NoVal]
    /\ wpos = [w \in Writers |-> 0]
    /\ rpc = "idle"
    /\ rkey = ""
    /\ rdur = 0
InitMerge ==
    /\ building_permits = <<>>
    /\ adu_permits = <<>>
    /\ merged = [done |-> FALSE, features |-> <<>>]
InitClass ==
    /\ props = [workclass |-> [kind |-> "absent", s |-> <<>>, h |-> 0],
                occupancyclass |-> [kind |-> "absent", s |-> <<>>, h |-> 0],
                adu_type |-> [kind |-> "absent", s |-> <<>>, h |-> 0],
                housingunitstotal |-> [kind |-> "absent", s |-> <<>>, h |-> 0]]
    /\ housing_type = [done |-> FALSE, label |-> ""]

\* A coordinate is None or a number of ten-thousandths of a degree; Python's
\* `not x` holds of None and of zero.
NoCoord == [kind |-> "none", v |-> 0]
Deg(v) == [kind |-> "num", v |-> v]
NoZip == "None"
NoScore == 0 - 1
InitGeo ==
    /\ lat = NoCoord
    /\ lng = NoCoord
    /\ zip_code = [done |-> FALSE, zip |-> NoZip]
    /\ dist_to_downtown = 0
    /\ min_dist = 0
    /\ transit_score = [done |-> FALSE, score |-> NoScore]
\* No fetch function has been called and nothing is memoized.
NoMemo == 0 - 1
NoOut == [kind |-> "none", features |-> 0]
InitFetch ==
    /\ fetch_fn = "none"
    /\ fetch_pc = "idle"
    /\ offset = 0
    /\ all_features = 0
    /\ requested = <<>>
    /\ received = <<>>
    /\ fetch_out = NoOut
    /\ area_plans_cache = NoMemo
    /\ bus_stops_cache = NoMemo
\* No request has been processed.
NoArgs == [year |-> <<>>, housing_type |-> "", zip |-> "", urban_ring |-> ""]
NotRun == [done |-> FALSE, out |-> [kind |-> "none"]]
InitProc ==
    /\ features = <<>>
    /\ args = NoArgs
    /\ processed = NotRun
    /\ response = NotRun
InitBiz ==
    /\ raw_data = <<>>
    /\ permits_response = NotRun
\* No key is configured (the default of os.environ.get) and no request was made.
NoFredData == [hit |-> FALSE, requests |-> 0, data |-> NoVal]
InitFred ==
    /\ FRED_API_KEY = ""
    /\ fred_data = NoFredData
    /\ labor_response = NotRun
\* No permit request has been made.
NoTrace ==
    [endpoint |-> "", path |-> "none", steps |-> <<>>, failed |-> FALSE,
     data |-> NoVal]
NoRefresh == [last |-> FALSE, set |-> FALSE, over |-> FALSE, data |-> NoVal]
InitReq ==
    /\ req_trace = NoTrace
    /\ req_response = NotRun
    /\ req_refresh = NoRefresh
\* fetch_census_cbp_zip has not been called.
NoZbpCall ==
    [done |-> FALSE, calls |-> 0, cached |-> RetNone, hit |-> FALSE,
     requests |-> 0, out |-> RetNone]
InitZbp == zbp_call = NoZbpCall
NoTimeline == [done |-> FALSE, labels |-> <<>>, values |-> <<>>]
InitTl ==
    /\ issued = <<>>
    /\ timeline = NoTimeline
InitExt == InitGeo /\ InitFetch /\ InitProc /\ InitBiz /\ InitFred /\ InitReq /\ InitZbp /\ InitTl
InitGeoRest ==
    /\ InitCache
    /\ InitConc
    /\ InitMerge
    /\ InitClass
    /\ InitFetch
    /\ InitProc
    /\ InitBiz
    /\ InitFred
    /\ InitReq
    /\ InitZbp
    /\ InitTl
InitFetchRest ==
    /\ InitCache
    /\ InitConc
    /\ InitMerge
    /\ InitClass
    /\ InitGeo
    /\ InitProc
    /\ InitBiz
    /\ InitFred
    /\ InitReq
    /\ InitZbp
    /\ InitTl
InitProcRest ==
    /\ InitCache
    /\ InitConc
    /\ InitMerge
    /\ InitClass
    /\ InitGeo
    /\ InitFetch
    /\ InitBiz
    /\ InitFred
    /\ InitReq
    /\ InitZbp
    /\ InitTl
InitBizRest ==
    /\ InitCache
    /\ InitConc
    /\ InitMerge
    /\ InitClass
    /\ InitGeo
    /\ InitFetch
    /\ InitProc
    /\ InitFred
    /\ InitReq
    /\ InitZbp
    /\ InitTl
InitFredRest ==
    /\ InitCache
    /\ InitConc
    /\ InitMerge
    /\ InitClass
    /\ InitGeo
    /\ InitFetch
    /\ InitProc
    /\ InitBiz
    /\ InitReq
    /\ InitZbp
    /\ InitTl
InitReqRest ==
    /\ InitCache
    /\ InitConc
    /\ InitMerge
    /\ InitClass
    /\ InitGeo
    /\ InitFetch
    /\ InitProc
    /\ InitBiz
    /\ InitFred
    /\ InitZbp
    /\ InitTl
InitZbpRest ==
    /\ InitCache
    /\ InitConc
    /\ InitMerge
    /\ InitClass
    /\ InitGeo
    /\ InitFetch
    /\ InitProc
    /\ InitBiz
    /\ InitFred
    /\ InitReq
    /\ InitTl
InitTlRest ==
    /\ InitCache
    /\ InitConc
    /\ InitMerge
    /\ InitClass
    /\ InitGeo
    /\ InitFetch
    /\ InitProc
    /\ InitBiz
    /\ InitFred
    /\ InitReq
    /\ InitZbp

Tick ==
    /\ now < MaxTime
    /\ now' = now + 1
    /\ UNCHANGED <<files, stored, res>>

SaveToCache(k, v) ==
    /\ files' = save_to_cache(files, k, v)
    /\ stored' = [stored EXCEPT ![k] = Saved(v)]
    /\ res' = Op("save", k, 0, RetNone, v, stored[k].v)
    /\ UNCHANGED now

InterruptedSave(k, v, n) ==
    /\ n \in 0..(Len(Dump(v)) - 1)
    /\ files' = write_at(open_w(files, get_cache_path(k)), get_cache_path(k), 0,
                         SubSeq(Dump(v), 1, n))
    /\ stored' = [stored EXCEPT ![k] = Partial]
    /\ res' = Op("killed", k, 0, RetRaise, v, NoVal)
    /\ UNCHANGED now

\* A variant with a slip: a read that finds the entry stale removes it.
LoadFromCacheEvicting(k, d) ==
    /\ res' = Op("load", k, d, load_from_cache(k, d), NoVal, NoVal)
    /\ files' = IF files[get_cache_path(k)].exists /\ load_from_cache(k, d) = RetNone
                THEN clear_cache(files, k) ELSE files
    /\ UNCHANGED <<now, stored>>

LoadFromCache(k, d) ==
    /\ res' = Op("load", k, d, load_from_cache(k, d), NoVal, NoVal)
    /\ UNCHANGED <<files, now, stored>>

ClearCache(k) ==
    /\ files' = clear_cache(files, k)
    /\ stored' = [stored EXCEPT ![k] = NotStored]
    /\ res' = Op("clear", k, 0, RetNone, NoVal, stored[k].v)
    /\ UNCHANGED now

ClearAll ==
    /\ files' = clear_cache(files, "")
    /\ stored' = [k \in Keys |-> NotStored]
    /\ res' = Op("clearall", "", 0, RetNone, NoVal, NoVal)
    /\ UNCHANGED now

Init == InitCache /\ InitConc /\ InitMerge /\ InitClass /\ InitExt
Next ==
    \/ Tick /\ UNCHANGED <<concVars, mergeVars, classVars, extVars>>
    \/ \E k \in Keys, v \in Payloads :
          SaveToCache(k, v) /\ UNCHANGED <<concVars, mergeVars, classVars, extVars>>
    \/ \E k \in Keys, v \in Payloads : \E n \in 0..Len(Dump(v)) :
          InterruptedSave(k, v, n) /\ UNCHANGED <<concVars, mergeVars, classVars, extVars>>
    \/ \E k \in Keys, d \in Durations :
          LoadFromCache(k, d) /\ UNCHANGED <<concVars, mergeVars, classVars, extVars>>
    \/ \E k \in Keys : ClearCache(k) /\ UNCHANGED <<concVars, mergeVars, classVars, extVars>>
    \/ ClearAll /\ UNCHANGED <<concVars, mergeVars, classVars, extVars>>
Spec == Init /\ [][Next]_vars


(***************************************************************************)
(* The cache under concurrent requests (the server handles requests on     *)
(* threads and nothing locks the file).  save_to_cache is open(path, 'w'), *)
(* which truncates; writes that reach the file when the buffer fills; and  *)
(* the close, which flushes the rest.  load_from_cache is the validity     *)
(* test and then the open and read.  All calls here are on one key, and    *)
(* they overlap within one hour of the clock.                              *)
(***************************************************************************)
ConcKey == "k1"

SaveOpen(w, v) ==
    /\ wpc[w] = "idle"
    /\ files' = open_w(files, get_cache_path(ConcKey))
    /\ wpc' = [wpc EXCEPT ![w] = "writing"]
    /\ wkey' = [wkey EXCEPT ![w] = ConcKey]
    /\ wval' = [wval EXCEPT ![w] = v]
    /\ wpos' = [wpos EXCEPT ![w] = 0]
    /\ stored' = [stored EXCEPT ![ConcKey] = Partial]
    /\ UNCHANGED <<now, res, rpc, rkey, rdur>>

SaveFlush(w, n) ==
    /\ wpc[w] = "writing"
    /\ n \in (wpos[w] + 1)..(Len(Dump(wval[w])) - 1)
    /\ files' = write_at(files, get_cache_path(wkey[w]), wpos[w],
                         SubSeq(Dump(wval[w]), wpos[w] + 1, n))
    /\ wpos' = [wpos EXCEPT ![w] = n]
    /\ UNCHANGED <<now, stored, res, wpc, wkey, wval, rpc, rkey, rdur>>

SaveClose(w) ==
    /\ wpc[w] = "writing"
    /\ files' = write_at(files, get_cache_path(wkey[w]), wpos[w],
                         SubSeq(Dump(wval[w]), wpos[w] + 1, Len(Dump(wval[w]))))
    /\ wpc' = [wpc EXCEPT ![w] = "idle"]
    /\ wkey' = [wkey EXCEPT ![w] = ""]
    /\ wval' = [wval EXCEPT ![w] = NoVal]
    /\ wpos' = [wpos EXCEPT ![w] = 0]
    /\ stored' = [stored EXCEPT ![wkey[w]] = Saved(wval[w])]
    /\ UNCHANGED <<now, res, rpc, rkey, rdur>>

LoadCheck(d) ==
    /\ rpc = "idle"
    /\ IF is_cache_valid(get_cache_path(ConcKey), d)
       THEN rpc' = "valid" /\ rkey' = ConcKey /\ rdur' = d /\ UNCHANGED res
       ELSE /\ res' = Op("load", ConcKey, d, RetNone, NoVal, NoVal)
            /\ UNCHANGED <<rpc, rkey, rdur>>
    /\ UNCHANGED <<files, now, stored, wpc, wkey, wval, wpos>>

LoadRead ==
    /\ rpc = "valid"
    /\ rpc' = "idle"
    /\ rkey' = ""
    /\ rdur' = 0
    /\ res' = Op("load", rkey, rdur,
                 IF files[get_cache_path(rkey)].exists
                 THEN json_load(files[get_cache_path(rkey)].content)
                 ELSE RetRaise,
                 NoVal, NoVal)
    /\ UNCHANGED <<files, now, stored, wpc, wkey, wval, wpos>>

NextConc ==
    \/ \E w \in Writers, v \in Payloads :
          SaveOpen(w, v) /\ UNCHANGED <<mergeVars, classVars, extVars>>
    \/ \E w \in Writers : \E n \in 1..Len(Dump(wval[w])) :
          SaveFlush(w, n) /\ UNCHANGED <<mergeVars, classVars, extVars>>
    \/ \E w \in Writers : SaveClose(w) /\ UNCHANGED <<mergeVars, classVars, extVars>>
    \/ \E d \in Durations : LoadCheck(d) /\ UNCHANGED <<mergeVars, classVars, extVars>>
    \/ LoadRead /\ UNCHANGED <<mergeVars, classVars, extVars>>
SpecConc == Init /\ [][NextConc]_vars

\* C2: a load that runs concurrently with stores to its key obtains None or
\* a complete payload that some store wrote; it never raises on, or returns,
\* an empty, truncated or half-written document.
ReadSeesWholePayload ==
    res.op = "load" =>
        \/ res.out = RetNone
        \/ res.out.kind = "value" /\ res.out.val \in Payloads

\* C22: once every store in flight on the key has completed, the file holds
\* exactly the document of the store that finished last.
LastWriterWins ==
    ((\A w \in Writers : wpc[w] = "idle") /\ Entry(ConcKey).kind = "saved") =>
        files[get_cache_path(ConcKey)].content = Dump(Entry(ConcKey).v)

(***************************************************************************)
(* Properties of the cache.                                                *)
(***************************************************************************)

\* C1: a load that follows a completed store of v to the same key returns v
\* while the entry's age is below the duration, and None once the age has
\* reached the duration.
CacheRoundTrip ==
    (res.op = "load" /\ Entry(res.key).kind = "saved") =>
        IF Age(res.key, res.at) < res.dur
        THEN res.out = RetValue(Entry(res.key).v)
        ELSE res.out = RetNone
CacheRoundTripWitness ==
    /\ res.op = "load"
    /\ Entry(res.key).kind = "saved"
    /\ Age(res.key, res.at) = 1
    /\ res.out = RetValue(Dict(<<"\"a\"">>, <<List(<<Atom("1")>>)>>))

\* C3: a load of an entry whose content is corrupt or partial does not raise:
\* it returns None.
CorruptReadIsMiss ==
    (res.op = "load" /\ Entry(res.key).kind = "partial") => res.out = RetNone

\* C4: a load returns None exactly when no entry exists or its age is not
\* strictly below the duration of this call, and an entry written by a
\* completed store is returned exactly when it exists with an age strictly
\* below that duration.
ValidityPerCall ==
    res.op = "load" =>
        LET e == Entry(res.key)
            valid == e.kind # "none" /\ Age(res.key, res.at) < res.dur
        IN  /\ res.out = RetNone <=> ~valid
            /\ e.kind = "saved" => (res.out = RetValue(e.v) <=> valid)
\* The same entry at the same time: a miss for this caller, a hit for a caller
\* with a longer duration.
ValidityPerCallWitness ==
    /\ res.op = "load"
    /\ res.out = RetNone
    /\ res.at = now
    /\ Entry(res.key).kind = "saved"
    /\ Age(res.key, now) = res.dur
    /\ \E d \in 0..MaxDuration :
          d > res.dur /\ load_from_cache(res.key, d) = RetValue(Entry(res.key).v)

\* C5: after a store of v the key holds v alone with age zero, whatever it
\* held before, and a load never returns anything but the payload of the most
\* recent completed store.
StoreReplaces ==
    /\ res.op = "save" =>
          \A d \in Durations :
              load_from_cache(res.key, d) =
                  IF now - res.at < d THEN RetValue(res.v) ELSE RetNone
    /\ (res.op = "load" /\ res.out.kind = "value") =>
          /\ Entry(res.key).kind = "saved"
          /\ res.out.val = Entry(res.key).v
StoreReplacesWitness ==
    /\ res.op = "save"
    /\ res.prior \in Payloads
    /\ Len(Dump(res.prior)) > Len(Dump(res.v))
    /\ now > res.at

\* C6: clear_cache(k) deletes the entry of k and changes no other entry;
\* clear_cache() deletes every entry; a deleted key then loads as None.
ClearFrame ==
    [][ \A k \in Keys :
          /\ (res'.op = "clear" /\ res'.key = k) =>
                /\ ~files'[get_cache_path(k)].exists
                /\ \A j \in Keys \ {k} :
                      files'[get_cache_path(j)] = files[get_cache_path(j)]
                /\ \A d \in Durations : load_from_cache(k, d)' = RetNone
          /\ res'.op = "clearall" =>
                /\ ~files'[get_cache_path(k)].exists
                /\ \A d \in Durations : load_from_cache(k, d)' = RetNone
      ]_vars
ClearFrameWitness ==
    /\ res.op = "clear"
    /\ res.prior \in Payloads
    /\ \E j \in Keys \ {res.key} : Entry(j).kind = "saved"

(***************************************************************************)
(* blueprints/housing.py: merge_permit_sources.  A feature is known here   *)
(* by its properties.permitnum ("None" when the properties or the key are  *)
(* missing, which is what the .get chain yields) and by the feed it came   *)
(* from, which stands for the rest of its fields.                          *)
(***************************************************************************)
PermitNums == {"A", "B", "C", "None"}
Features(src) == [permitnum : PermitNums, src : {src}]
SeqsUpTo(S, n) == UNION {[1..m -> S] : m \in 0..n}

permitnum_of(feature) == feature.permitnum

\* Variants with a slip.
merge_permit_sources_no_check(building, adu) ==
    building \o adu
RECURSIVE merge_loop_tracking(_, _, _)
merge_loop_tracking(acc, seen, rest) ==
    IF rest = <<>> THEN acc
    ELSE IF permitnum_of(Head(rest)) \notin seen
         THEN merge_loop_tracking(Append(acc, Head(rest)),
                                  seen \cup {permitnum_of(Head(rest))}, Tail(rest))
         ELSE merge_loop_tracking(acc, seen, Tail(rest))
merge_permit_sources_tracking(building, adu) ==
    merge_loop_tracking(building,
                        {permitnum_of(building[i]) : i \in 1..Len(building)}, adu)

RECURSIVE merge_loop(_, _, _)
merge_loop(acc, existing_nums, rest) ==
    IF rest = <<>> THEN acc
    ELSE IF permitnum_of(Head(rest)) \notin existing_nums
         THEN merge_loop(Append(acc, Head(rest)), existing_nums, Tail(rest))
         ELSE merge_loop(acc, existing_nums, Tail(rest))
merge_permit_sources(building, adu) ==
    LET existing_nums == {permitnum_of(building[i]) : i \in 1..Len(building)}
    IN  merge_loop(building, existing_nums, adu)

InitMergeInputs ==
    /\ building_permits \in SeqsUpTo(Features("building"), MaxFeatures)
    /\ adu_permits \in SeqsUpTo(Features("adu"), MaxFeatures)
    /\ merged = [done |-> FALSE, features |-> <<>>]

MergePermitSources ==
    /\ ~merged.done
    /\ merged' = [done |-> TRUE,
                  features |-> merge_permit_sources(building_permits, adu_permits)]
    /\ UNCHANGED <<building_permits, adu_permits>>

NextMerge == MergePermitSources /\ UNCHANGED <<cacheVars, concVars, classVars, extVars>>
InitMergeSpec == InitCache /\ InitConc /\ InitClass /\ InitExt /\ InitMergeInputs
SpecMerge == InitMergeSpec /\ [][NextMerge]_vars

KeysOf(fs) == {fs[i].permitnum : i \in 1..Len(fs)}
KeySeq(fs) == [i \in 1..Len(fs) |-> fs[i].permitnum]
DistinctKeys(fs) == \A i, j \in 1..Len(fs) : i # j => fs[i].permitnum # fs[j].permitnum
\* The j-th accepted index of the supplemental list, counting upwards.
Accepted == {i \in 1..Len(adu_permits) :
                adu_permits[i].permitnum \notin KeysOf(building_permits)}
NthAccepted(j) == CHOOSE i \in Accepted : Cardinality({x \in Accepted : x <= i}) = j

\* C7: the merged list is the primary records, all of them and in their order,
\* followed by exactly the supplemental records whose key no primary record
\* carries, in their supplemental order; [A,B] merged with [B,C] is [A,B,C].
MergeOrder ==
    merged.done =>
        LET out == merged.features
            n == Len(building_permits)
        IN  /\ Len(out) = n + Cardinality(Accepted)
            /\ \A i \in 1..n : out[i] = building_permits[i]
            /\ \A j \in 1..Cardinality(Accepted) :
                  out[n + j] = adu_permits[NthAccepted(j)]
MergeOrderWitness ==
    /\ merged.done
    /\ KeySeq(building_permits) = <<"A", "B">>
    /\ KeySeq(adu_permits) = <<"B", "C">>
    /\ KeySeq(merged.features) = <<"A", "B", "C">>
    /\ merged.features[2].src = "building"

MaxUnits == 6

UpperCase == 
    <<"A", "B", "C", "D", "E", "F", "G", "H", "I", "J", "K", "L",
          "M", "N", "O", "P", "Q", "R", "S", "T", "U", "V", "W", "X",
          "Y", "Z">>
LowerCase == 
    <<"a", "b", "c", "d", "e", "f", "g", "h", "i", "j", "k", "l",
          "m", "n", "o", "p", "q", "r", "s", "t", "u", "v", "w", "x",
          "y", "z">>
lower_char(c) ==
    IF \E i \in 1..Len(UpperCase) : UpperCase[i] = c
    THEN LowerCase[CHOOSE i \in 1..Len(UpperCase) : UpperCase[i] = c]
    ELSE c
lower(str) == [i \in 1..Len(str) |-> lower_char(str[i])]
Whitespace == {" ", "\t", "\n", "\r"}
RECURSIVE lstrip(_), rstrip(_)
lstrip(str) ==
    IF str # <<>> /\ Head(str) \in Whitespace THEN lstrip(Tail(str)) ELSE str
rstrip(str) ==
    IF str # <<>> /\ str[Len(str)] \in Whitespace
    THEN rstrip(SubSeq(str, 1, Len(str) - 1)) ELSE str
strip(str) == lstrip(rstrip(str))
\* sub in str
contains(sub, str) ==
    \E i \in 0..(Len(str) - Len(sub)) : SubSeq(str, i + 1, i + Len(sub)) = sub

S_duplex == <<"d", "u", "p", "l", "e", "x">>
S_townhouse == <<"t", "o", "w", "n", "h", "o", "u", "s", "e">>
S_townhome == <<"t", "o", "w", "n", "h", "o", "m", "e">>
S_single_family == <<"s", "i", "n", "g", "l", "e", " ", "f", "a", "m", "i", "l", "y">>
S_r3 == <<"r", "3">>
S_sfd == <<"s", "f", "d">>
S_null == <<"n", "u", "l", "l">>
S_not_adu == 
    <<"n", "o", "t", " ", "a", "c", "c", "e", "s", "s", "o", "r",
          "y", " ", "d", "w", "e", "l", "l", "i", "n", "g">>
S_not_adu_cut == 
    <<"n", "o", "t", " ", "a", "c", "c", "e", "s", "s", "o", "r",
          "y", " ", "d", "w", "e", "l", "l", "i">>

\* Attribute values as the feed delivers them.
Absent == [kind |-> "absent", s |-> <<>>, h |-> 0]
Null == [kind |-> "null", s |-> <<>>, h |-> 0]
Str(chars) == [kind |-> "str", s |-> chars, h |-> 0]
Num(halves) == [kind |-> "num", s |-> <<>>, h |-> halves]

\* props.get(name) or "": None and the empty string give the default.
get_or_empty(attr) == IF attr.kind = "str" THEN attr.s ELSE <<>>
\* A variant with a slip: only None gives the default, 0 stays 0.
get_or_one_keeps_zero(attr) == IF attr.kind = "num" THEN attr.h ELSE 2
\* props.get("housingunitstotal") or 1: None and 0 give 1 (two halves).
get_or_one(attr) == IF attr.kind = "num" /\ attr.h # 0 THEN attr.h ELSE 2

NotAduSentinels == {S_null, S_not_adu, S_not_adu_cut, <<>>}

\* Variants with a slip.
classify_housing_type_duplex_first(p) ==
    LET workclass == lower(strip(get_or_empty(p.workclass)))
        occupancy == lower(strip(get_or_empty(p.occupancyclass)))
        adu_type == strip(get_or_empty(p.adu_type))
        units == get_or_one(p.housingunitstotal)
    IN  IF adu_type # <<>> /\ lower(adu_type) \notin NotAduSentinels THEN "ADU"
        ELSE IF contains(S_duplex, occupancy) \/ units = 2 * 2 THEN "Duplex"
        ELSE IF units >= 2 * 5 THEN "Multifamily"
        ELSE IF units >= 2 * 3 THEN "Small Multifamily"
        ELSE IF contains(S_townhouse, workclass) \/ contains(S_townhome, workclass)
             THEN "Townhome"
        ELSE IF \/ contains(S_single_family, workclass)
                \/ contains(S_r3, occupancy)
                \/ contains(S_sfd, occupancy)
                \/ units = 2 * 1
             THEN "Single Family"
        ELSE "Unknown"
classify_housing_type_no_default(p) ==
    LET workclass == lower(strip(get_or_empty(p.workclass)))
        occupancy == lower(strip(get_or_empty(p.occupancyclass)))
        adu_type == strip(get_or_empty(p.adu_type))
    IN  IF adu_type # <<>> /\ lower(adu_type) \notin NotAduSentinels THEN "ADU"
        ELSE IF p.housingunitstotal.kind # "num" THEN "TypeError"
        ELSE LET units == p.housingunitstotal.h
             IN  IF units >= 2 * 5 THEN "Multifamily"
                 ELSE IF units >= 2 * 3 THEN "Small Multifamily"
                 ELSE IF contains(S_duplex, occupancy) \/ units = 2 * 2 THEN "Duplex"
                 ELSE IF \/ contains(S_townhouse, workclass)
                         \/ contains(S_townhome, workclass)
                      THEN "Townhome"
                 ELSE IF \/ contains(S_single_family, workclass)
                         \/ contains(S_r3, occupancy)
                         \/ contains(S_sfd, occupancy)
                         \/ units = 2 * 1
                      THEN "Single Family"
                 ELSE "Unknown"

classify_housing_type(p) ==
    LET workclass == lower(strip(get_or_empty(p.workclass)))
        occupancy == lower(strip(get_or_empty(p.occupancyclass)))
        adu_type == strip(get_or_empty(p.adu_type))
        units == get_or_one(p.housingunitstotal)
    IN  IF adu_type # <<>> /\ lower(adu_type) \notin NotAduSentinels THEN "ADU"
        ELSE IF units >= 2 * 5 THEN "Multifamily"
        ELSE IF units >= 2 * 3 THEN "Small Multifamily"
        ELSE IF contains(S_duplex, occupancy) \/ units = 2 * 2 THEN "Duplex"
        ELSE IF contains(S_townhouse, workclass) \/ contains(S_townhome, workclass)
             THEN "Townhome"
        ELSE IF \/ contains(S_single_family, workclass)
                \/ contains(S_r3, occupancy)
                \/ contains(S_sfd, occupancy)
                \/ units = 2 * 1
             THEN "Single Family"
        ELSE "Unknown"

\* The attribute values tried, by what they are meant to say.
W_Townhouse == <<"N", "e", "w", " ", "T", "o", "w", "n", "h", "o", "u", "s", "e">>
W_Townhome == <<" ", "T", "O", "W", "N", "H", "O", "M", "E", " ">>
W_SingleFamily == <<"S", "i", "n", "g", "l", "e", " ", "F", "a", "m", "i", "l", "y">>
W_Other == <<"O", "t", "h", "e", "r">>
O_Duplex == <<"R", "3", " ", "D", "u", "p", "l", "e", "x">>
O_R3 == <<" ", "R", "3">>
O_SFD == <<"S", "F", "D">>
O_R2 == <<"R", "2">>
A_Attached == <<"A", "t", "t", "a", "c", "h", "e", "d">>
A_NULL == <<"N", "U", "L", "L">>
A_Not == 
    <<"N", "o", "t", " ", "A", "c", "c", "e", "s", "s", "o", "r",
          "y", " ", "D", "w", "e", "l", "l", "i", "n", "g">>
A_NotCut == 
    <<"N", "o", "t", " ", "A", "c", "c", "e", "s", "s", "o", "r",
          "y", " ", "D", "w", "e", "l", "l", "i", " ">>
A_Blank == <<" ">>
TownWorkClasses == {Str(W_Townhouse), Str(W_Townhome)}
SingleWorkClasses == {Str(W_SingleFamily)}
OtherWorkClasses == {Absent, Null, Str(<<>>), Str(W_Other)}
DuplexOccupancies == {Str(O_Duplex)}
SingleOccupancies == {Str(O_R3), Str(O_SFD)}
OtherOccupancies == {Absent, Null, Str(O_R2)}
AduMarkers == {Str(A_Attached)}
NotAduMarkers ==
    {Absent, Null, Str(<<>>), Str(A_Blank), Str(A_NULL), Str(A_Not), Str(A_NotCut)}
UnitCounts == {Absent, Null} \cup {Num(h) : h \in (0 - 2)..(2 * MaxUnits)}

InitClassInputs ==
    /\ props \in [workclass : TownWorkClasses \cup SingleWorkClasses \cup OtherWorkClasses,
                  occupancyclass : DuplexOccupancies \cup SingleOccupancies
                                       \cup OtherOccupancies,
                  adu_type : AduMarkers \cup NotAduMarkers,
                  housingunitstotal : UnitCounts]
    /\ housing_type = [done |-> FALSE, label |-> ""]

ClassifyHousingType ==
    /\ ~housing_type.done
    /\ housing_type' = [done |-> TRUE, label |-> classify_housing_type(props)]
    /\ UNCHANGED props

NextClass == ClassifyHousingType /\ UNCHANGED <<cacheVars, concVars, mergeVars, extVars>>
InitClassSpec == InitCache /\ InitConc /\ InitMerge /\ InitExt /\ InitClassInputs
SpecClass == InitClassSpec /\ [][NextClass]_vars

Categories ==
    {"ADU", "Multifamily", "Small Multifamily", "Duplex", "Townhome",
     "Single Family", "Unknown"}

\* The unit count the rules see, in half units: 1 when absent, null or 0.
UnitHalves ==
    IF props.housingunitstotal \in {Absent, Null, Num(0)}
    THEN 2 ELSE props.housingunitstotal.h
WholeUnits == UnitHalves % 2 = 0
\* The label of the first rule that applies, in the documented order.
FirstMatch ==
    IF props.adu_type \in AduMarkers THEN "ADU"
    ELSE IF UnitHalves >= 10 THEN "Multifamily"
    ELSE IF UnitHalves \in {6, 8} THEN "Small Multifamily"
    ELSE IF props.occupancyclass \in DuplexOccupancies \/ UnitHalves = 4 THEN "Duplex"
    ELSE IF props.workclass \in TownWorkClasses THEN "Townhome"
    ELSE IF \/ props.workclass \in SingleWorkClasses
            \/ props.occupancyclass \in SingleOccupancies
            \/ UnitHalves = 2
         THEN "Single Family"
    ELSE "Unknown"

\* C9: the label is that of the first rule that applies, in the order ADU
\* marker, 5 or more units, 3 or 4 units, duplex occupancy or 2 units,
\* townhouse work class, single-family work class or R3/SFD occupancy or 1
\* unit, otherwise Unknown, an absent count being 1; 5 units with a duplex
\* occupancy is Multifamily.  (Unit counts are whole numbers here.)
CascadeOrder ==
    housing_type.done =>
        /\ WholeUnits => housing_type.label = FirstMatch
        /\ (/\ props.adu_type \in NotAduMarkers
            /\ props.housingunitstotal = Num(10)
            /\ props.occupancyclass \in DuplexOccupancies)
              => housing_type.label = "Multifamily"
CascadeOrderWitness ==
    /\ housing_type.done
    /\ props.adu_type = Str(A_NotCut)
    /\ props.housingunitstotal = Num(10)
    /\ props.occupancyclass = Str(O_Duplex)
    /\ housing_type.label = "Multifamily"

\* C10: whatever the attributes are (absent, null or present), the classifier
\* returns one of the seven categories and does not fail.
ClassifyTotal ==
    housing_type.done => housing_type.label \in Categories
ClassifyTotalWitness ==
    /\ housing_type.done
    /\ props.workclass = Absent
    /\ props.occupancyclass = Null
    /\ props.adu_type = Null
    /\ props.housingunitstotal = Absent
    /\ housing_type.label = "Single Family"


(***************************************************************************)
(* The zone lookup (shared/geography.py).  Latitudes, longitudes and radii *)
(* are whole numbers of ten-thousandths of a degree, the precision of the  *)
(* table; the code's test dist < radius on square roots is the same test   *)
(* on the squares.  The table is a sequence, in the order the dict literal *)
(* lists its keys, which is the order .items() yields them.                *)
(***************************************************************************)
GridLat == 132
GridLng == 148

falsy(x) == x.kind = "none" \/ x.v = 0

Center(z, clat, clng, radius) ==
    [zip |-> z, clat |-> clat, clng |-> clng, radius |-> radius]

ZIP_CODE_CENTERS ==
    << Center("27601", 357796, 0 - 786382, 200),
       Center("27603", 357350, 0 - 786650, 400),
       Center("27604", 358050, 0 - 785800, 400),
       Center("27605", 357950, 0 - 786550, 250),
       Center("27606", 357600, 0 - 787100, 400),
       Center("27607", 358100, 0 - 786800, 300),
       Center("27608", 358050, 0 - 786350, 200),
       Center("27609", 358400, 0 - 786300, 400),
       Center("27610", 357500, 0 - 785500, 500),
       Center("27612", 358450, 0 - 787050, 400),
       Center("27613", 358900, 0 - 787500, 500),
       Center("27614", 359500, 0 - 786500, 500),
       Center("27615", 358700, 0 - 786200, 400),
       Center("27616", 358650, 0 - 785350, 500),
       Center("27617", 359000, 0 - 788000, 400) >>

\* The square of ((lat - clat) ** 2 + (lng - clng) ** 2) ** 0.5.
Dist2(la, ln, c) ==
    (la - c.clat) * (la - c.clat) + (ln - c.clng) * (ln - c.clng)

Abs(n) == IF n < 0 THEN 0 - n ELSE n

\* dist < radius.  A point a radius or more away along one axis is not within
\* the radius; testing that first keeps the squares small and changes nothing.
Within(la, ln, c) ==
    /\ Abs(la - c.clat) < c.radius
    /\ Abs(ln - c.clng) < c.radius
    /\ Dist2(la, ln, c) < c.radius * c.radius

Inf == 0 - 1

RECURSIVE zip_loop_le(_, _, _, _, _)
zip_loop_le(la, ln, i, best_zip, best_dist) ==
    IF i > Len(ZIP_CODE_CENTERS) THEN best_zip
    ELSE LET c == ZIP_CODE_CENTERS[i]
             dist == Dist2(la, ln, c)
         IN  IF Within(la, ln, c) /\ (best_dist = Inf \/ dist <= best_dist)
             THEN zip_loop_le(la, ln, i + 1, c.zip, dist)
             ELSE zip_loop_le(la, ln, i + 1, best_zip, best_dist)

get_zip_for_coords_le(la, ln) ==
    IF falsy(la) \/ falsy(ln) THEN NoZip
    ELSE zip_loop_le(la.v, ln.v, 1, NoZip, Inf)

RECURSIVE zip_loop(_, _, _, _, _)
zip_loop(la, ln, i, best_zip, best_dist) ==
    IF i > Len(ZIP_CODE_CENTERS) THEN best_zip
    ELSE LET c == ZIP_CODE_CENTERS[i]
             dist == Dist2(la, ln, c)
         IN  IF Within(la, ln, c) /\ (best_dist = Inf \/ dist < best_dist)
             THEN zip_loop(la, ln, i + 1, c.zip, dist)
             ELSE zip_loop(la, ln, i + 1, best_zip, best_dist)

get_zip_for_coords(la, ln) ==
    IF falsy(la) \/ falsy(ln) THEN NoZip
    ELSE zip_loop(la.v, ln.v, 1, NoZip, Inf)

\* Points of a grid of 0.0025 degree over the area the table covers, and a
\* missing and a zero value of each coordinate.
LatInputs == {NoCoord, Deg(0)} \cup {Deg(356800 + 25 * i) : i \in 0..GridLat}
LngInputs == {NoCoord, Deg(0)} \cup {Deg(25 * j - 788500) : j \in 0..GridLng}

InitZipInputs ==
    /\ lat \in LatInputs
    /\ lng \in LngInputs
    /\ zip_code = [done |-> FALSE, zip |-> NoZip]
    /\ dist_to_downtown = 0
    /\ min_dist = 0
    /\ transit_score = [done |-> FALSE, score |-> NoScore]

GetZipForCoords ==
    /\ ~zip_code.done
    /\ zip_code' = [done |-> TRUE, zip |-> get_zip_for_coords(lat, lng)]
    /\ UNCHANGED <<lat, lng, dist_to_downtown, min_dist, transit_score>>

NextZip == GetZipForCoords /\ UNCHANGED geoRest
InitZipSpec == InitGeoRest /\ InitZipInputs
SpecZip == InitZipSpec /\ [][NextZip]_vars

\* The centers the point lies strictly within the radius of (none when a
\* coordinate is missing).
Qualifying ==
    IF lat.kind = "none" \/ lng.kind = "none" THEN {}
    ELSE {i \in 1..Len(ZIP_CODE_CENTERS) : Within(lat.v, lng.v, ZIP_CODE_CENTERS[i])}
DistTo(i) == Dist2(lat.v, lng.v, ZIP_CODE_CENTERS[i])

\* C11: get_zip_for_coords returns None when the point is strictly within no
\* center's radius; otherwise it returns a center the point is strictly within
\* the radius of, no other such center is nearer, and of the equally near ones
\* it is the first in the table's order.
NearestZone ==
    zip_code.done =>
        IF Qualifying = {} THEN zip_code.zip = NoZip
        ELSE \E i \in Qualifying :
                /\ zip_code.zip = ZIP_CODE_CENTERS[i].zip
                /\ \A j \in Qualifying :
                      /\ DistTo(i) <= DistTo(j)
                      /\ DistTo(j) = DistTo(i) => i <= j

\* A point equally near two centers, within the radius of both and nearer to
\* no other: the lookup answered the one the table lists first.
NearestZoneWitness ==
    /\ zip_code.done
    /\ \E i \in Qualifying, j \in Qualifying :
          /\ i < j
          /\ DistTo(i) = DistTo(j)
          /\ \A k \in Qualifying : DistTo(i) <= DistTo(k)
          /\ zip_code.zip = ZIP_CODE_CENTERS[i].zip


(***************************************************************************)
(* The transit score (shared/geography.py).  haversine_distance is not     *)
(* computed: the point's distance to DOWNTOWN_CENTER and its least         *)
(* distance to a waypoint of BRT_CORRIDORS are inputs, in tenths of a      *)
(* mile.  Every corridor starts at DOWNTOWN_CENTER, so the second is at    *)
(* most the first.  Points are held in sixtieths, the least unit in which  *)
(* every segment of the score is whole on these distances; the result of   *)
(* round(_, 1) is a number of tenths of a point.                           *)
(***************************************************************************)
MaxMiles == 13

Pts(n) == 60 * n

distance_points_no_offset(d) ==
    IF d <= 10 THEN Pts(50)
    ELSE IF d <= 30 THEN Pts(50) - 150 * d
    ELSE IF d <= 60 THEN Pts(25) - 50 * (d - 30)
    ELSE IF d <= 100 THEN Pts(10) - 15 * (d - 60)
    ELSE 0

\* 50, 50 * (1 - (d - 1.0) / 2.0), 25 * (1 - (d - 3.0) / 3.0),
\* 10 * (1 - (d - 6.0) / 4.0), or nothing added.
distance_points(d) ==
    IF d <= 10 THEN Pts(50)
    ELSE IF d <= 30 THEN Pts(50) - 150 * (d - 10)
    ELSE IF d <= 60 THEN Pts(25) - 50 * (d - 30)
    ELSE IF d <= 100 THEN Pts(10) - 15 * (d - 60)
    ELSE 0

\* 30, 30 * (1 - (min_dist - 0.5) / 1.0), or 0.
calculate_brt_proximity(md) ==
    IF md <= 5 THEN Pts(30)
    ELSE IF md <= 15 THEN Pts(30) - 180 * (md - 5)
    ELSE 0

\* A variant with a slip: the first two steps of the bonus are swapped.
density_bonus_rising(d) ==
    IF d <= 20 THEN Pts(15)
    ELSE IF d <= 50 THEN Pts(20)
    ELSE IF d <= 80 THEN Pts(10)
    ELSE IF d <= 120 THEN Pts(5)
    ELSE 0

density_bonus(d) ==
    IF d <= 20 THEN Pts(20)
    ELSE IF d <= 50 THEN Pts(15)
    ELSE IF d <= 80 THEN Pts(10)
    ELSE IF d <= 120 THEN Pts(5)
    ELSE 0

\* round(x, 1): the nearest tenth, the even one of two equally near.
round1(x) ==
    LET q == x \div 6
        r == x % 6
    IN  IF r < 3 THEN q
        ELSE IF r > 3 THEN q + 1
        ELSE IF q % 2 = 0 THEN q ELSE q + 1

calculate_transit_score(la, lo, d, md) ==
    IF falsy(la) \/ falsy(lo) THEN NoScore
    ELSE round1(Min(Pts(100),
                    distance_points(d) + calculate_brt_proximity(md) + density_bonus(d)))

InitTransitInputs ==
    /\ lat \in {NoCoord, Deg(0), Deg(357796)}
    /\ lng \in {NoCoord, Deg(0), Deg(0 - 786382)}
    /\ dist_to_downtown \in 0..(10 * MaxMiles)
    /\ min_dist \in 0..dist_to_downtown
    /\ zip_code = [done |-> FALSE, zip |-> NoZip]
    /\ transit_score = [done |-> FALSE, score |-> NoScore]

CalculateTransitScore ==
    /\ ~transit_score.done
    /\ transit_score' =
          [done |-> TRUE,
           score |-> calculate_transit_score(lat, lng, dist_to_downtown, min_dist)]
    /\ UNCHANGED <<lat, lng, zip_code, dist_to_downtown, min_dist>>

NextTransit ==
    CalculateTransitScore /\ UNCHANGED geoRest
InitTransitSpec == InitGeoRest /\ InitTransitInputs
SpecTransit == InitTransitSpec /\ [][NextTransit]_vars

ScoreSum ==
    distance_points(dist_to_downtown) + calculate_brt_proximity(min_dist)
        + density_bonus(dist_to_downtown)

\* C12, as claimed: with neither coordinate missing the score is a value in
\* [0,100].
ScoreUnlessMissing ==
    (transit_score.done /\ lat.kind # "none" /\ lng.kind # "none")
        => transit_score.score \in 0..1000

\* C12, amended: the score is None when a coordinate is missing or zero;
\* otherwise the distance component is in [0,50], the corridor component in
\* [0,30], the density bonus one of 0, 5, 10, 15, 20, and the score is their sum
\* capped at 100 and rounded to a tenth, which lies in [0,100].
TransitScoreRange ==
    transit_score.done =>
        IF falsy(lat) \/ falsy(lng) THEN transit_score.score = NoScore
        ELSE /\ distance_points(dist_to_downtown) \in 0..Pts(50)
             /\ calculate_brt_proximity(min_dist) \in 0..Pts(30)
             /\ density_bonus(dist_to_downtown) \in {0, Pts(5), Pts(10), Pts(15), Pts(20)}
             /\ transit_score.score \in 0..1000
             /\ Abs(6 * transit_score.score - Min(Pts(100), ScoreSum)) <= 3

\* A point between one and three miles from downtown and between half a mile
\* and a mile and a half from a corridor: both sloped segments contribute.
TransitScoreWitness ==
    /\ transit_score.done
    /\ ~falsy(lat) /\ ~falsy(lng)
    /\ distance_points(dist_to_downtown) \in 1..(Pts(50) - 1)
    /\ calculate_brt_proximity(min_dist) \in 1..(Pts(30) - 1)
    /\ transit_score.score \in 1..999


(***************************************************************************)
(* The upstream fetches (blueprints/housing.py).  A response is what one   *)
(* requests.get, raise_for_status and response.json() produce: a network   *)
(* error, a non-2xx status (both raise a RequestException), or a document  *)
(* with some number of features.  Feature lists are held by their length.  *)
(* One call runs at a time; fetch_historical_permits takes a step for each *)
(* page request, the single-request functions take one step.               *)
(***************************************************************************)
batch_size == 2000
max_offset == 50000

NetworkError == [status |-> "network_error", features |-> 0]
HttpError == [status |-> "http_error", features |-> 0]
Ok(n) == [status |-> "ok", features |-> n]
RequestException(r) == r.status # "ok"

\* A page is empty, short or full; the other documents hold up to MaxFeatures
\* features.
PageResponses == {NetworkError, HttpError} \cup {Ok(n) : n \in {0, 1, batch_size}}
Responses == {NetworkError, HttpError} \cup {Ok(n) : n \in 0..MaxFeatures}

FeatureCollection(n) == [kind |-> "value", features |-> n]

cap_reached_gt(off) == off > max_offset

\* if offset >= 50000: break
cap_reached(off) == off >= max_offset

CallFetchHistoricalPermits ==
    /\ fetch_pc # "loop"
    /\ fetch_fn' = "fetch_historical_permits"
    /\ fetch_pc' = "loop"
    /\ offset' = 0
    /\ all_features' = 0
    /\ requested' = <<>>
    /\ received' = <<>>
    /\ fetch_out' = NoOut
    /\ UNCHANGED <<area_plans_cache, bus_stops_cache>>

\* One pass of the while loop: the request at resultOffset = offset, and what
\* the loop does with the response.
FetchPage(r) ==
    /\ fetch_pc = "loop"
    /\ requested' = Append(requested, offset)
    /\ IF RequestException(r)
       THEN /\ received' = Append(received, "error")
            /\ fetch_pc' = "done"
            /\ fetch_out' = FeatureCollection(all_features)
            /\ UNCHANGED <<offset, all_features>>
       ELSE IF r.features = 0
       THEN /\ received' = Append(received, "empty")
            /\ fetch_pc' = "done"
            /\ fetch_out' = FeatureCollection(all_features)
            /\ UNCHANGED <<offset, all_features>>
       ELSE /\ received' = Append(received, "page")
            /\ all_features' = all_features + r.features
            /\ offset' = offset + batch_size
            /\ IF cap_reached(offset')
               THEN /\ fetch_pc' = "done"
                    /\ fetch_out' = FeatureCollection(all_features')
               ELSE /\ fetch_pc' = "loop"
                    /\ fetch_out' = NoOut
    /\ UNCHANGED <<fetch_fn, area_plans_cache, bus_stops_cache>>

\* try: return response.json()  except RequestException: return the empty
\* collection.
fetch_once(r) ==
    IF RequestException(r) THEN FeatureCollection(0) ELSE FeatureCollection(r.features)

Returned(fn, kinds, out) ==
    /\ fetch_fn' = fn
    /\ fetch_pc' = "done"
    /\ requested' = <<>>
    /\ received' = kinds
    /\ fetch_out' = out
    /\ UNCHANGED <<offset, all_features>>

Kind(r) == IF RequestException(r) THEN "error" ELSE IF r.features = 0 THEN "empty" ELSE "page"

FetchAduPermits(r) ==
    /\ fetch_pc # "loop"
    /\ Returned("fetch_adu_permits", <<Kind(r)>>, fetch_once(r))
    /\ UNCHANGED <<area_plans_cache, bus_stops_cache>>

FetchPermits(r) ==
    /\ fetch_pc # "loop"
    /\ Returned("fetch_permits", <<Kind(r)>>, fetch_once(r))
    /\ UNCHANGED <<area_plans_cache, bus_stops_cache>>

\* A variant with a slip: the empty collection of a failed fetch is kept.
FetchAreaPlansKeepingFailure(r) ==
    /\ fetch_pc # "loop"
    /\ IF area_plans_cache # NoMemo
       THEN /\ Returned("fetch_area_plans", <<>>, FeatureCollection(area_plans_cache))
            /\ UNCHANGED area_plans_cache
       ELSE /\ Returned("fetch_area_plans", <<Kind(r)>>, fetch_once(r))
            /\ area_plans_cache' = IF RequestException(r) THEN 0 ELSE r.features
    /\ UNCHANGED bus_stops_cache

FetchAreaPlans(r) ==
    /\ fetch_pc # "loop"
    /\ IF area_plans_cache # NoMemo
       THEN /\ Returned("fetch_area_plans", <<>>, FeatureCollection(area_plans_cache))
            /\ UNCHANGED area_plans_cache
       ELSE /\ Returned("fetch_area_plans", <<Kind(r)>>, fetch_once(r))
            /\ area_plans_cache' = IF RequestException(r) THEN NoMemo ELSE r.features
    /\ UNCHANGED bus_stops_cache

FetchBusStops(r) ==
    /\ fetch_pc # "loop"
    /\ IF bus_stops_cache # NoMemo
       THEN /\ Returned("fetch_bus_stops", <<>>, FeatureCollection(bus_stops_cache))
            /\ UNCHANGED bus_stops_cache
       ELSE /\ Returned("fetch_bus_stops", <<Kind(r)>>, fetch_once(r))
            /\ bus_stops_cache' = IF RequestException(r) THEN NoMemo ELSE r.features
    /\ UNCHANGED area_plans_cache

NextFetch ==
    \/ CallFetchHistoricalPermits /\ UNCHANGED fetchRest
    \/ \E r \in PageResponses : FetchPage(r) /\ UNCHANGED fetchRest
    \/ \E r \in Responses : FetchAduPermits(r) /\ UNCHANGED fetchRest
    \/ \E r \in Responses : FetchPermits(r) /\ UNCHANGED fetchRest
    \/ \E r \in Responses : FetchAreaPlans(r) /\ UNCHANGED fetchRest
    \/ \E r \in Responses : FetchBusStops(r) /\ UNCHANGED fetchRest
SpecFetch == Init /\ [][NextFetch]_vars
\* Every page request gets its response or times out.
SpecFetchLive ==
    SpecFetch /\ WF_vars(\E r \in PageResponses : FetchPage(r) /\ UNCHANGED fetchRest)

Failed == \E i \in 1..Len(received) : received[i] = "error"

\* C13: a fetch function that met a failed request has returned, without
\* raising, the empty feature collection.
FailedFetchIsEmpty ==
    (fetch_pc = "done" /\ Failed) => fetch_out = FeatureCollection(0)

\* C19: fetch_historical_permits requests the offsets 0, 2000, 4000, ... in
\* turn, at most 25 of them, and holds at most 50,000 features; while it loops
\* every response was a non-empty page and the offset is below 50,000; when it
\* has stopped, every response but the last was a non-empty page and the last
\* was a failure or an empty page or brought the offset to 50,000; and a call
\* that is looping stops.
PaginationShape ==
    fetch_fn = "fetch_historical_permits" =>
        /\ Len(requested) <= 25
        /\ \A i \in 1..Len(requested) : requested[i] = 2000 * (i - 1)
        /\ Len(received) = Len(requested)
        /\ all_features <= 50000
        /\ \A i \in 1..(Len(received) - 1) : received[i] = "page"
        /\ fetch_pc = "loop" =>
              /\ \A i \in 1..Len(received) : received[i] = "page"
              /\ offset < 50000
        /\ fetch_pc = "done" =>
              /\ received # <<>>
              /\ \/ received[Len(received)] \in {"error", "empty"}
                 \/ offset >= 50000
URBAN_RING_MAP_without_27617 ==
    ("27601" :> "Downtown")
        @@ ("27603" :> "Near Downtown") @@ ("27604" :> "Near Downtown")
        @@ ("27605" :> "Near Downtown") @@ ("27607" :> "Near Downtown")
        @@ ("27608" :> "Near Downtown")
        @@ ("27606" :> "Inner Suburb") @@ ("27609" :> "Inner Suburb")
        @@ ("27610" :> "Inner Suburb") @@ ("27612" :> "Inner Suburb")
        @@ ("27615" :> "Inner Suburb") @@ ("27616" :> "Inner Suburb")
        @@ ("27613" :> "Outer Suburb") @@ ("27614" :> "Outer Suburb")

URBAN_RING_MAP ==
    ("27601" :> "Downtown")
        @@ ("27603" :> "Near Downtown") @@ ("27604" :> "Near Downtown")
        @@ ("27605" :> "Near Downtown") @@ ("27607" :> "Near Downtown")
        @@ ("27608" :> "Near Downtown")
        @@ ("27606" :> "Inner Suburb") @@ ("27609" :> "Inner Suburb")
        @@ ("27610" :> "Inner Suburb") @@ ("27612" :> "Inner Suburb")
        @@ ("27615" :> "Inner Suburb") @@ ("27616" :> "Inner Suburb")
        @@ ("27613" :> "Outer Suburb") @@ ("27614" :> "Outer Suburb")
        @@ ("27617" :> "Outer Suburb")

get_urban_ring(z) ==
    IF z = NoZip \/ z = "" THEN "Unknown"
    ELSE IF z \in DOMAIN URBAN_RING_MAP THEN URBAN_RING_MAP[z]
    ELSE "Unknown"

NoYear == 0
Date(year) == [kind |-> "num", s |-> <<>>, h |-> year]

Props(workclass, occupancyclass, adu_type, housingunitstotal, issueddate, permitnum) ==
    [workclass |-> workclass, occupancyclass |-> occupancyclass, adu_type |-> adu_type,
     housingunitstotal |-> housingunitstotal, issueddate |-> issueddate,
     permitnum |-> permitnum]
EmptyProps == Props(Absent, Absent, Absent, Absent, Absent, "None")
NullProps == Props(Null, Null, Null, Null, Null, "None")

NoPoint == [lng |-> NoCoord, lat |-> NoCoord, d |-> 0, md |-> 0]
Point(la, ln, d, md) == [lng |-> Deg(ln), lat |-> Deg(la), d |-> d, md |-> md]

Feature(properties, p, geometry, coordinates, point) ==
    [properties |-> properties, p |-> p, geometry |-> geometry,
     coordinates |-> coordinates, point |-> point]

\* feature.get("properties", {}): the dict, {} when the key is absent, None
\* when it is null; None has no .get.
props_raises(f) == f.properties = "null"
props_of(f) == IF f.properties = "dict" THEN f.p ELSE EmptyProps

\* geometry.get("coordinates", [None, None]) if geometry else [None, None],
\* and then coords[1] if coords else None.
coords_of(f) ==
    IF f.geometry = "dict" /\ f.coordinates = "pair" THEN f.point ELSE NoPoint

\* if issue_date_ms: datetime.fromtimestamp(issue_date_ms / 1000).year, None
\* when the division raises TypeError.
issue_year_of(attr) == IF attr.kind = "num" /\ attr.h # 0 THEN attr.h ELSE NoYear

process_feature(f) ==
    LET pr == props_of(f)
        c == coords_of(f)
        z == get_zip_for_coords(c.lat, c.lng)
    IN  [permit_num |-> IF pr.permitnum = "None" THEN "N/A" ELSE pr.permitnum,
         issue_year |-> issue_year_of(pr.issueddate),
         lat |-> c.lat,
         lng |-> c.lng,
         housing_type |-> classify_housing_type(pr),
         zip_code |-> z,
         neighborhood |-> "None",
         urban_ring |-> get_urban_ring(z),
         transit_score |-> calculate_transit_score(c.lat, c.lng, c.d, c.md),
         units |-> get_or_one(pr.housingunitstotal)]

RECURSIVE sum_units(_)
sum_units(ps) == IF ps = <<>> THEN 0 ELSE Head(ps).units + sum_units(Tail(ps))

housing_type_counts(ps) ==
    [t \in {ps[i].housing_type : i \in 1..Len(ps)} |->
        Cardinality({i \in 1..Len(ps) : ps[i].housing_type = t})]
urban_ring_counts(ps) ==
    [t \in {ps[i].urban_ring : i \in 1..Len(ps)} |->
        Cardinality({i \in 1..Len(ps) : ps[i].urban_ring = t})]
yearly_counts(ps) ==
    [t \in {ps[i].issue_year : i \in 1..Len(ps)} \ {NoYear} |->
        Cardinality({i \in 1..Len(ps) : ps[i].issue_year = t})]
zip_counts(ps) ==
    [t \in {ps[i].zip_code : i \in 1..Len(ps)} \ {NoZip} |->
        Cardinality({i \in 1..Len(ps) : ps[i].zip_code = t})]

Raise == [kind |-> "raise"]

process_permits(fs) ==
    IF \E i \in 1..Len(fs) : props_raises(fs[i]) THEN Raise
    ELSE LET permits == [i \in 1..Len(fs) |-> process_feature(fs[i])]
         IN  [kind |-> "value",
              permits |-> permits,
              total_count |-> Len(permits),
              total_units |-> sum_units(permits),
              housing_type_counts |-> housing_type_counts(permits),
              urban_ring_counts |-> urban_ring_counts(permits),
              yearly_counts |-> yearly_counts(permits),
              zip_counts |-> zip_counts(permits)]

\* int(year_filter), for a string of decimal digits; ValueError otherwise.
Digits == <<"0", "1", "2", "3", "4", "5", "6", "7", "8", "9">>
is_digit(c) == \E n \in 1..10 : Digits[n] = c
digit(c) == (CHOOSE n \in 1..10 : Digits[n] = c) - 1
int_raises(str) == str = <<>> \/ \E i \in 1..Len(str) : ~is_digit(str[i])
RECURSIVE int(_)
int(str) ==
    IF str = <<>> THEN 0
    ELSE 10 * int(SubSeq(str, 1, Len(str) - 1)) + digit(str[Len(str)])

by_year(ps, a) ==
    IF a.year = <<>> THEN ps
    ELSE SelectSeq(ps, LAMBDA p : p.issue_year = int(a.year))
by_housing_type(ps, a) ==
    IF a.housing_type = "" THEN ps
    ELSE SelectSeq(ps, LAMBDA p : p.housing_type = a.housing_type)
by_zip(ps, a) ==
    IF a.zip = "" THEN ps
    ELSE SelectSeq(ps, LAMBDA p : p.zip_code = a.zip)
by_urban_ring(ps, a) ==
    IF a.urban_ring = "" THEN ps
    ELSE SelectSeq(ps, LAMBDA p : p.urban_ring = a.urban_ring)

apply_filters_no_ring(ps, a) == by_zip(by_housing_type(by_year(ps, a), a), a)

apply_filters(ps, a) == by_urban_ring(by_zip(by_housing_type(by_year(ps, a), a), a), a)

get_residential_permits(pd, a) ==
    IF pd.kind = "raise" THEN Raise
    ELSE IF a.year # <<>> /\ int_raises(a.year) THEN Raise
    ELSE LET permits == apply_filters(pd.permits, a)
         IN  [kind |-> "value",
              permits |-> permits,
              total_count |-> Len(permits),
              total_units |-> sum_units(permits),
              housing_type_counts |-> housing_type_counts(permits),
              urban_ring_counts |-> urban_ring_counts(permits),
              yearly_counts |-> yearly_counts(permits),
              zip_counts |-> pd.zip_counts,
              unfiltered_totals |->
                  [total_count |-> pd.total_count,
                   total_units |-> pd.total_units,
                   housing_type_counts |-> pd.housing_type_counts,
                   urban_ring_counts |-> pd.urban_ring_counts,
                   yearly_counts |-> pd.yearly_counts]]

\* The features tried: three well-formed permits of different type, year and
\* zone, and features whose properties, geometry, coordinates or fields are
\* absent or null.
F_Single ==
    Feature("dict", Props(Str(W_SingleFamily), Str(O_SFD), Null, Num(2), Date(2020), "A"),
            "dict", "pair", Point(357796, 0 - 786382, 0, 0))
F_Duplex ==
    Feature("dict", Props(Str(W_Other), Str(O_Duplex), Str(A_NULL), Num(4), Date(2021), "B"),
            "dict", "pair", Point(357950, 0 - 786550, 14, 14))
F_Multi ==
    Feature("dict", Props(Absent, Str(O_R2), Absent, Num(10), Date(2020), "None"),
            "null", "absent", NoPoint)
F_Bare == Feature("absent", EmptyProps, "absent", "absent", NoPoint)
F_NullFields == Feature("dict", NullProps, "dict", "null", NoPoint)
F_NoCoordinates == Feature("dict", EmptyProps, "dict", "absent", NoPoint)
F_NullProperties == Feature("null", EmptyProps, "null", "absent", NoPoint)
SampleFeatures ==
    {F_Single, F_Duplex, F_Multi, F_Bare, F_NullFields, F_NoCoordinates, F_NullProperties}

YearArgs == {<<>>, <<"2", "0", "2", "0">>, <<"2", "0", "2", "1">>, <<"2", "0", "x">>}
HousingTypeArgs == {"", "Single Family", "Duplex"}
ZipArgs == {"", "27601", "27605"}
UrbanRingArgs == {"", "Downtown", "Unknown"}

InitProcInputs ==
    /\ features \in SeqsUpTo(SampleFeatures, MaxFeatures)
    /\ args \in [year : YearArgs, housing_type : HousingTypeArgs, zip : ZipArgs,
                 urban_ring : UrbanRingArgs]
    /\ processed = NotRun
    /\ response = NotRun

\* The second half of the request: process_permits on the merged collection,
\* then the filters and the response.
ProcessAndFilter ==
    /\ ~response.done
    /\ processed' = [done |-> TRUE, out |-> process_permits(features)]
    /\ response' = [done |-> TRUE,
                    out |-> get_residential_permits(process_permits(features), args)]
    /\ UNCHANGED <<features, args>>

NextProc == ProcessAndFilter /\ UNCHANGED procRest
InitProcSpec == InitProcRest /\ InitProcInputs
SpecProc == InitProcSpec /\ [][NextProc]_vars

\* C14: process_permits completes on every feature list and yields a record
\* for every feature.
BatchNeverAborts ==
    processed.done =>
        /\ processed.out.kind = "value"
        /\ Len(processed.out.permits) = Len(features)

\* The sum of the values of a dict of counts.
RECURSIVE Total(_)
Total(counts) ==
    IF DOMAIN counts = {} THEN 0
    ELSE LET t == CHOOSE x \in DOMAIN counts : TRUE
         IN  counts[t] + Total([x \in DOMAIN counts \ {t} |-> counts[x]])

\* C25: for every feature list process_permits counts each record once:
\* total_count is the number of features, the per-type and the per-ring
\* counts each sum to it, and the per-zip counts sum to the number of
\* records that were given a zone.
CountsEachRecordOnce ==
    processed.done =>
        /\ processed.out.kind = "value"
        /\ processed.out.total_count = Len(features)
        /\ Total(processed.out.housing_type_counts) = processed.out.total_count
        /\ Total(processed.out.urban_ring_counts) = processed.out.total_count
        /\ Total(processed.out.zip_counts) =
              Cardinality({i \in 1..Len(features) :
                             processed.out.permits[i].zip_code # NoZip})

\* The classified record of the i-th feature, and whether it passes every
\* filter the request supplies.
Classified(i) == process_feature(features[i])
Passes(i) ==
    /\ args.year # <<>> => Classified(i).issue_year = int(args.year)
    /\ args.housing_type # "" => Classified(i).housing_type = args.housing_type
    /\ args.zip # "" => Classified(i).zip_code = args.zip
    /\ args.urban_ring # "" => Classified(i).urban_ring = args.urban_ring
Sat == {i \in 1..Len(features) : Passes(i)}
All == 1..Len(features)
RECURSIVE UnitsOver(_)
UnitsOver(I) ==
    IF I = {} THEN 0
    ELSE LET i == CHOOSE j \in I : TRUE IN Classified(i).units + UnitsOver(I \ {i})
TypeCount(I, t) == Cardinality({i \in I : Classified(i).housing_type = t})
RingCount(I, t) == Cardinality({i \in I : Classified(i).urban_ring = t})
YearCount(I, t) == Cardinality({i \in I : Classified(i).issue_year = t})
TotalsOver(tot, I) ==
    /\ tot.total_count = Cardinality(I)
    /\ tot.total_units = UnitsOver(I)
    /\ DOMAIN tot.housing_type_counts = {Classified(i).housing_type : i \in I}
    /\ \A t \in DOMAIN tot.housing_type_counts :
          tot.housing_type_counts[t] = TypeCount(I, t)
    /\ DOMAIN tot.urban_ring_counts = {Classified(i).urban_ring : i \in I}
    /\ \A t \in DOMAIN tot.urban_ring_counts : tot.urban_ring_counts[t] = RingCount(I, t)
    /\ DOMAIN tot.yearly_counts = {Classified(i).issue_year : i \in I} \ {NoYear}
    /\ \A t \in DOMAIN tot.yearly_counts : tot.yearly_counts[t] = YearCount(I, t)
NoFilter == args.year = <<>> /\ args.housing_type = "" /\ args.zip = "" /\ args.urban_ring = ""

\* C17: in a response of the residential endpoint, the permits are the
\* classified records that pass every supplied filter, in the order of the
\* features; the count, the units and the per-type, per-ring and per-year counts
\* beside them are those of these records alone; unfiltered_totals holds the
\* same aggregates over all records; and without a filter the two coincide.
FiltersAfterClassification ==
    (response.done /\ response.out.kind = "value") =>
        LET out == response.out
        IN  /\ Len(out.permits) = Cardinality(Sat)
            /\ \A i \in Sat :
                  out.permits[Cardinality({j \in Sat : j <= i})] = Classified(i)
            /\ TotalsOver(out, Sat)
            /\ TotalsOver(out.unfiltered_totals, All)
            /\ NoFilter =>
                  /\ out.total_count = out.unfiltered_totals.total_count
                  /\ out.total_units = out.unfiltered_totals.total_units
                  /\ out.housing_type_counts = out.unfiltered_totals.housing_type_counts
                  /\ out.urban_ring_counts = out.unfiltered_totals.urban_ring_counts
                  /\ out.yearly_counts = out.unfiltered_totals.yearly_counts

\* Two records, a ring filter and another filter supplied, and exactly the
\* second record passes.
FiltersWitness ==
    /\ response.done
    /\ response.out.kind = "value"
    /\ Len(features) = 2
    /\ args.urban_ring # ""
    /\ args.year # <<>>
    /\ Sat = {2}
    /\ response.out.permits = <<Classified(2)>>


(***************************************************************************)
(* The business categories (blueprints/business.py): get_category,         *)
(* process_permit and the permits endpoint with the counts and sums of     *)
(* calculate_analytics that are kept per category.                         *)
(***************************************************************************)
CATEGORY_MAP ==
    (<<"O", "F", "F", "I", "C", "E", ",", " ", "B", "A", "N", "K", ",",
       " ", "A", "N", "D", " ", "P", "R", "O", "F", "E", "S", "S", "I",
       "O", "N", "A", "L", " ", "B", "U", "I", "L", "D", "I", "N", "G">>
       :> "Office")
    @@ (<<"S", "T", "O", "R", "E", " ", "A", "N", "D", " ", "M", "E", "R",
          "C", "A", "N", "T", "I", "L", "E", " ", "B", "U", "I", "L", "D",
          "I", "N", "G">>
          :> "Retail")
    @@ (<<"I", "N", "D", "U", "S", "T", "R", "I", "A", "L", " ", "B", "U",
          "I", "L", "D", "I", "N", "G">>
          :> "Industrial")
    @@ (<<"A", "M", "U", "S", "E", "M", "E", "N", "T", " ", "&", " ", "R",
          "E", "C", "R", "E", "A", "T", "I", "O", "N", "A", "L", " ", "B",
          "U", "I", "L", "D", "I", "N", "G">>
          :> "Entertainment")
    @@ (<<"S", "E", "R", "V", "I", "C", "E", " ", "S", "T", "A", "T", "I",
          "O", "N", " ", "O", "R", " ", "R", "E", "P", "A", "I", "R", " ",
          "G", "A", "R", "A", "G", "E">>
          :> "Auto Services")
    @@ (<<"H", "O", "T", "E", "L", ",", " ", "M", "O", "T", "E", "L", ",",
          " ", "O", "R", " ", "T", "O", "U", "R", "I", "S", "T", " ", "C",
          "A", "B", "I", "N">>
          :> "Hospitality")
    @@ (<<"H", "O", "T", "E", "L", ",", " ", "M", "O", "T", "E", "L", " ",
          "A", "N", "D", " ", "T", "O", "U", "R", "I", "S", "T", " ", "C",
          "A", "B", "I", "N">>
          :> "Hospitality")
    @@ (<<"C", "H", "U", "R", "C", "H", " ", "O", "R", " ", "R", "E", "L",
          "I", "G", "I", "O", "U", "S", " ", "B", "U", "I", "L", "D", "I",
          "N", "G">>
          :> "Institutional")
    @@ (<<"C", "H", "U", "R", "C", "H", " ", "O", "R", " ", "O", "T", "H",
          "E", "R", " ", "R", "E", "L", "I", "G", "I", "O", "U", "S", " ",
          "B", "U", "I", "L", "D", "I", "N", "G">>
          :> "Institutional")
    @@ (<<"S", "C", "H", "O", "O", "L", " ", "A", "N", "D", " ", "O", "T",
          "H", "E", "R", " ", "E", "D", "U", "C", "A", "T", "I", "O", "N",
          "A", "L", " ", "B", "U", "I", "L", "D", "I", "N", "G">>
          :> "Institutional")
    @@ (<<"S", "C", "H", "O", "O", "L", " ", "A", "N", "D", " ", "E", "D",
          "U", "C", "A", "T", "I", "O", "N", "A", "L", " ", "B", "U", "I",
          "L", "D", "I", "N", "G">>
          :> "Institutional")
    @@ (<<"L", "O", "D", "G", "E", " ", "A", "S", "S", "O", "C", "I", "A",
          "T", "I", "O", "N">>
          :> "Institutional")
    @@ (<<"H", "O", "S", "P", "I", "T", "A", "L", " ", "A", "N", "D", " ",
          "M", "E", "D", "I", "C", "A", "L", " ", "O", "F", "F", "I", "C",
          "E">>
          :> "Healthcare")
    @@ (<<"H", "O", "S", "P", "I", "T", "A", "L", " ", "A", "N", "D", " ",
          "I", "N", "S", "T", "I", "T", "U", "T", "I", "O", "N", "A", "L",
          " ", "B", "U", "I", "L", "D", "I", "N", "G">>
          :> "Healthcare")
    @@ (<<"P", "U", "B", "L", "I", "C", " ", "W", "O", "R", "K", "S", " ",
          "&", " ", "U", "T", "I", "L", "I", "T", "I", "E", "S", " ", "B",
          "U", "I", "L", "D", "I", "N", "G", "S">>
          :> "Institutional")

EXCLUDED_CATEGORIES ==
    { <<"A", "D", "D", "I", "T", "I", "O", "N", "/", "A", "L", "T", "E",
        "R", "A", "T", "I", "O", "N", " ", "N", "O", "N", "R", "E", "S",
        "I", "D", "E", "N", "T", "I", "A", "L", " ", "B", "L", "D", "G">>,
      <<"A", "D", "D", "I", "T", "I", "O", "N", "/", "A", "L", "T", "E",
        "R", "A", "T", "I", "O", "N", " ", "R", "E", "S", "I", "D", "E",
        "N", "T", "I", "A", "L", " ", "B", "L", "D", "G">>,
      <<"D", "E", "M", "O", "L", "I", "T", "I", "O", "N", " ", "O", "F",
        " ", "N", "O", "N", "R", "E", "S", "I", "D", "E", "N", "T", "I",
        "A", "L", " ", "B", "U", "I", "L", "D", "I", "N", "G">>,
      <<"F", "I", "V", "E", " ", "O", "R", " ", "M", "O", "R", "E", " ",
        "F", "A", "M", "I", "L", "Y", " ", "B", "U", "I", "L", "D", "I",
        "N", "G">>,
      <<"T", "W", "O", " ", "F", "A", "M", "I", "L", "Y", " ", "B", "U",
        "I", "L", "D", "I", "N", "G", " ", "(", "D", "U", "P", "L", "E",
        "X", ")">>,
      <<"R", "E", "S", "I", "D", "E", "N", "T", "I", "A", "L", " ", "T",
        "O", "W", "N", "H", "O", "U", "S", "E">>,
      <<"R", "E", "S", "I", "D", "E", "N", "T", "I", "A", "L", " ", "C",
        "O", "N", "D", "O", "M", "I", "N", "I", "U", "M">>,
      <<"R", "E", "S", "I", "D", "E", "N", "T", "I", "A", "L", " ", "G",
        "A", "R", "A", "G", "E", " ", "O", "R", " ", "C", "A", "R", "P",
        "O", "R", "T">>,
      <<"S", "H", "E", "D", "S", ",", " ", "B", "O", "A", "T", "H", "O",
        "U", "S", "E", "S", ",", " ", "A", "C", "C", "E", "S", "S", "O",
        "R", "Y", " ", "B", "U", "I", "L", "D", "I", "N", "G", "S">>,
      <<"M", "I", "S", "C", "E", "L", "L", "A", "N", "E", "O", "U", "S",
        " ", "S", "U", "C", "H", " ", "A", "S", " ", "F", "E", "N", "C",
        "E", "S">>,
      <<"P", "A", "R", "K", "I", "N", "G", " ", "G", "A", "R", "A", "G",
        "E", " ", "(", "B", "L", "D", "G", "S", " ", "&", " ", "O", "P",
        "E", "N", " ", "D", "E", "C", "K", "E", "D", ")">> }

NoCategory == "None"

get_category_other(proposed_use) ==
    IF get_or_empty(proposed_use) = <<>> THEN NoCategory
    ELSE LET cleaned == strip(get_or_empty(proposed_use))
         IN  IF cleaned \in EXCLUDED_CATEGORIES THEN NoCategory
             ELSE IF cleaned \in DOMAIN CATEGORY_MAP THEN CATEGORY_MAP[cleaned]
             ELSE "Other"

get_category(proposed_use) ==
    IF get_or_empty(proposed_use) = <<>> THEN NoCategory
    ELSE LET cleaned == strip(get_or_empty(proposed_use))
         IN  IF cleaned \in EXCLUDED_CATEGORIES THEN NoCategory
             ELSE IF cleaned \in DOMAIN CATEGORY_MAP THEN CATEGORY_MAP[cleaned]
             ELSE NoCategory

\* props.get("estprojectcost") or 0
get_or_zero(attr) == IF attr.kind = "num" THEN attr.h ELSE 0

\* The fields of process_permit's record that the category statistics read.
process_permit(f) ==
    [proposed_use |-> f.proposeduse,
     category |-> get_category(f.proposeduse),
     est_cost |-> get_or_zero(f.estprojectcost),
     issued_year |-> issue_year_of(f.issueddate)]

\* [p for p in (process_permit(f) for f in features) if p is not None]
kept_permits(fs) ==
    SelectSeq([i \in 1..Len(fs) |-> process_permit(fs[i])],
              LAMBDA p : p.category # NoCategory)

\* calculate_analytics skips a permit without an issue year.
dated(ps) == SelectSeq(ps, LAMBDA p : p.issued_year # NoYear)

RECURSIVE sum_cost(_)
sum_cost(ps) == IF ps = <<>> THEN 0 ELSE Head(ps).est_cost + sum_cost(Tail(ps))

by_category(ps) ==
    [c \in {ps[i].category : i \in 1..Len(ps)} |->
        [count |-> Cardinality({i \in 1..Len(ps) : ps[i].category = c}),
         investment |-> sum_cost(SelectSeq(ps, LAMBDA p : p.category = c))]]

calculate_analytics(ps) ==
    [total_permits |-> Len(ps),
     total_investment |-> sum_cost(dated(ps)),
     by_category |-> by_category(dated(ps))]

get_permits(fs) ==
    [kind |-> "value",
     permits |-> kept_permits(fs),
     analytics |-> calculate_analytics(kept_permits(fs)),
     permit_count |-> Len(kept_permits(fs))]

\* The proposed uses tried: every key of the two tables as it is, padded
\* with a blank and a tab, and in lower case; no value, null, the empty and a
\* blank string, a use that is in neither table and a key cut short.
TableKeys == DOMAIN CATEGORY_MAP \cup EXCLUDED_CATEGORIES
Padded(k) == <<" ">> \o k \o <<"\t">>
U_Warehouse == <<"W", "A", "R", "E", "H", "O", "U", "S", "E">>
U_Industrial == <<"I", "N", "D", "U", "S", "T", "R", "I", "A", "L">>
U_IndustrialBuilding == U_Industrial \o <<" ", "B", "U", "I", "L", "D", "I", "N", "G">>
U_ResidentialTownhouse ==
    <<"R", "E", "S", "I", "D", "E", "N", "T", "I", "A", "L", " ",
      "T", "O", "W", "N", "H", "O", "U", "S", "E">>
ProposedUses ==
    {Str(k) : k \in TableKeys} \cup {Str(Padded(k)) : k \in TableKeys}
        \cup {Str(lower(k)) : k \in TableKeys}
        \cup {Absent, Null, Str(<<>>), Str(<<" ">>), Str(U_Warehouse), Str(U_Industrial)}

BizFeature(proposeduse, estprojectcost, issueddate) ==
    [proposeduse |-> proposeduse, estprojectcost |-> estprojectcost,
     issueddate |-> issueddate]
SampleUses ==
    {Str(U_IndustrialBuilding), Str(Padded(U_IndustrialBuilding)),
     Str(U_ResidentialTownhouse), Str(U_Warehouse), Null}
SampleBizFeatures ==
    {BizFeature(u, c, d) : u \in SampleUses, c \in {Null, Num(5)},
                           d \in {Absent, Date(2021)}}

InitBizInputs ==
    /\ raw_data \in {<<BizFeature(u, Num(5), Date(2021))>> : u \in ProposedUses}
                       \cup SeqsUpTo(SampleBizFeatures, MaxFeatures)
    /\ permits_response = NotRun

GetPermits ==
    /\ ~permits_response.done
    /\ permits_response' = [done |-> TRUE, out |-> get_permits(raw_data)]
    /\ UNCHANGED raw_data

NextBiz == GetPermits /\ UNCHANGED bizRest
InitBizSpec == InitBizRest /\ InitBizInputs
SpecBiz == InitBizSpec /\ [][NextBiz]_vars

\* The trimmed proposed use of the i-th feature, whether it is a key of the
\* mapping table and outside the exclusion set, and the features that are.
Trimmed(i) ==
    IF raw_data[i].proposeduse.kind = "str" THEN strip(raw_data[i].proposeduse.s) ELSE <<>>
Mapped(i) == Trimmed(i) \in DOMAIN CATEGORY_MAP /\ Trimmed(i) \notin EXCLUDED_CATEGORIES
MappedSet == {i \in 1..Len(raw_data) : Mapped(i)}
Counted == {i \in MappedSet : raw_data[i].issueddate.kind = "num"}
CostOf(i) == IF raw_data[i].estprojectcost.kind = "num" THEN raw_data[i].estprojectcost.h ELSE 0
RECURSIVE CostOver(_)
CostOver(I) ==
    IF I = {} THEN 0
    ELSE LET i == CHOOSE j \in I : TRUE IN CostOf(i) + CostOver(I \ {i})

\* C16: the permits of the response are the features whose trimmed proposed use
\* is a key of the mapping table and not in the exclusion set, in order, each
\* with the table's category; every other feature is absent from them, from
\* permit_count, from the total investment and from every per-category count
\* and sum.
FailClosed ==
    permits_response.done =>
        LET out == permits_response.out
        IN  /\ out.permit_count = Cardinality(MappedSet)
            /\ Len(out.permits) = Cardinality(MappedSet)
            /\ \A i \in MappedSet :
                  /\ out.permits[Cardinality({j \in MappedSet : j <= i})].category
                        = CATEGORY_MAP[Trimmed(i)]
                  /\ out.permits[Cardinality({j \in MappedSet : j <= i})].proposed_use
                        = raw_data[i].proposeduse
            /\ out.analytics.total_permits = Cardinality(MappedSet)
            /\ out.analytics.total_investment = CostOver(Counted)
            /\ DOMAIN out.analytics.by_category = {CATEGORY_MAP[Trimmed(i)] : i \in Counted}
            /\ \A c \in DOMAIN out.analytics.by_category :
                  /\ out.analytics.by_category[c].count
                        = Cardinality({i \in Counted : CATEGORY_MAP[Trimmed(i)] = c})
                  /\ out.analytics.by_category[c].investment
                        = CostOver({i \in Counted : CATEGORY_MAP[Trimmed(i)] = c})

\* Two features with a cost and a date: the first has a use in neither table,
\* the second a padded key of the mapping table; only the second is counted.
FailClosedWitness ==
    /\ permits_response.done
    /\ Len(raw_data) = 2
    /\ raw_data[1].proposeduse = Str(U_Warehouse)
    /\ raw_data[1].estprojectcost = Num(5)
    /\ raw_data[1].issueddate = Date(2021)
    /\ raw_data[2] = BizFeature(Str(Padded(U_IndustrialBuilding)), Num(5), Date(2021))
    /\ permits_response.out.permit_count = 1
    /\ permits_response.out.analytics.total_investment = 5

(***************************************************************************)
(* blueprints/economy.py: fetch_fred_series, fetch_all_fred_data and the   *)
(* labor-market endpoint.  Two of the seven series of FRED_SERIES are      *)
(* kept, one of the category the endpoint selects and one of another; of   *)
(* a slot the category, the observations, the error and the latest value   *)
(* are kept (name, unit, frequency and series_id are copied from the       *)
(* configuration).  The clock moves in half days here, the entry's         *)
(* freshness window being a day.  Cache entries are those written by       *)
(* stores that ran to completion.                                          *)
(***************************************************************************)
MaxHalfDays == 3
HalfDay == DEFAULT_CACHE_DURATION_HOURS \div 2

\* A variant with a slip: the payload is tested against None.
truthy_not_none(v) == v # Atom("null")

\* Python's truth value of a JSON value: `if cached:`.
truthy(v) ==
    IF v.t = "atom" THEN v.a \notin {"null", "0", "false", "\"\""}
    ELSE v.items # <<>>

\* dict.get(key): the value under the key, None when absent.
dict_get(d, key) ==
    IF \E i \in 1..Len(d.keys) : d.keys[i] = key
    THEN d.items[CHOOSE i \in 1..Len(d.keys) : d.keys[i] = key]
    ELSE Atom("null")

ApiKeys == {"", "key"}
FRED_SERIES ==
    << [key |-> "\"unemployment_rate\"", category |-> "\"labor\""],
       [key |-> "\"real_gdp\"", category |-> "\"growth\""] >>
fred_cache_key == "k2"
fred_duration_hours == 24

\* What the FRED service answers when it is asked: a failure, or a document
\* whose i-th observation carries the i-th date and a value string, "." for
\* a missing value.
FredDates == <<"\"2015-01-01\"", "\"2015-02-01\"">>
FredValues == {"\"1\"", "\".\""}
FredOk(values) == [status |-> "ok", values |-> values]
FredFailed(status) == [status |-> status, values |-> <<>>]
FredResponses ==
    {FredFailed("network_error"), FredFailed("http_error")}
        \cup {FredOk(vs) : vs \in SeqsUpTo(FredValues, Len(FredDates))}
\* float(obs["value"]) and str(e).
float(str) == IF str = "\"1\"" THEN "1" ELSE "2"
str_e(r) ==
    IF r.status = "network_error" THEN "\"ConnectionError\"" ELSE "\"HTTPError\""

RECURSIVE observations(_, _)
observations(values, i) ==
    IF i > Len(values) THEN <<>>
    ELSE (IF values[i] # "\".\""
          THEN <<Dict(<<"\"date\"", "\"value\"">>,
                      <<Atom(FredDates[i]), Atom(float(values[i]))>>)>>
          ELSE <<>>) \o observations(values, i + 1)

\* A variant with a slip: the request is made whether or not a key is set.
fetch_fred_series_no_guard(api_key, r) ==
    IF RequestException(r)
    THEN [error |-> Atom(str_e(r)), data |-> <<>>, requests |-> 1]
    ELSE [error |-> Atom("null"), data |-> observations(r.values, 1),
          requests |-> 1]

\* r is what the service answers if it is asked; requests counts the calls
\* of requests.get.
fetch_fred_series(api_key, r) ==
    IF api_key = ""
    THEN [error |-> Atom("\"FRED_API_KEY not configured\""), data |-> <<>>,
          requests |-> 0]
    ELSE IF RequestException(r)
    THEN [error |-> Atom(str_e(r)), data |-> <<>>, requests |-> 1]
    ELSE [error |-> Atom("null"), data |-> observations(r.values, 1),
          requests |-> 1]

\* result[key] of fetch_all_fred_data; a year-over-year change needs more
\* observations than the service returns here.
Slot(config, series_data) ==
    LET base == <<Atom(config.category), List(series_data.data),
                  series_data.error>>
        n == Len(series_data.data)
    IN  IF n > 0
        THEN Dict(<<"\"category\"", "\"observations\"", "\"error\"",
                    "\"latest_value\"", "\"latest_date\"">>,
                  base \o <<dict_get(series_data.data[n], "\"value\""),
                            dict_get(series_data.data[n], "\"date\"")>>)
        ELSE Dict(<<"\"category\"", "\"observations\"", "\"error\"">>, base)

RECURSIVE sum_requests(_)
sum_requests(sds) ==
    IF sds = <<>> THEN 0 ELSE Head(sds).requests + sum_requests(Tail(sds))

\* The value returned (or the exception), the files left, and what the call
\* did: whether the cache answered and how many requests went out.
fetch_all_fred_data(api_key, rs) ==
    LET cached == load_from_cache(fred_cache_key, fred_duration_hours)
        sds == [i \in 1..Len(FRED_SERIES) |-> fetch_fred_series(api_key, rs[i])]
        result == Dict([i \in 1..Len(FRED_SERIES) |-> FRED_SERIES[i].key],
                       [i \in 1..Len(FRED_SERIES) |-> Slot(FRED_SERIES[i], sds[i])])
    IN  IF cached.kind = "raise"
        THEN [kind |-> "raise", data |-> NoVal, fs |-> files, hit |-> FALSE,
              requests |-> 0]
        ELSE IF cached.kind = "value" /\ truthy(cached.val)
        THEN [kind |-> "value", data |-> cached.val, fs |-> files, hit |-> TRUE,
              requests |-> 0]
        ELSE [kind |-> "value", data |-> result,
              fs |-> save_to_cache(files, fred_cache_key, result),
              hit |-> FALSE, requests |-> sum_requests(sds)]

\* {key: data for key, data in fred_data.items() if data.get("category") == "labor"}
RECURSIVE labor_series(_, _)
labor_series(d, i) ==
    IF i > Len(d.keys) THEN Dict(<<>>, <<>>)
    ELSE LET rest == labor_series(d, i + 1)
         IN  IF dict_get(d.items[i], "\"category\"") = Atom("\"labor\"")
             THEN Dict(<<d.keys[i]>> \o rest.keys, <<d.items[i]>> \o rest.items)
             ELSE rest

get_labor_market(api_key, fad) ==
    IF fad.kind = "raise" THEN [kind |-> "raise"]
    ELSE [kind |-> "value", labor_market |-> labor_series(fad.data, 1),
          api_configured |-> api_key # ""]

InitFredInputs ==
    /\ FRED_API_KEY \in ApiKeys
    /\ fred_data = NoFredData
    /\ labor_response = NotRun

\* GET /api/labor, rs being what the service would answer for each series.
GetLaborMarket(rs) ==
    LET fad == fetch_all_fred_data(FRED_API_KEY, rs)
    IN  /\ files' = fad.fs
        /\ stored' = IF fad.kind = "value" /\ ~fad.hit
                     THEN [stored EXCEPT ![fred_cache_key] = Saved(fad.data)]
                     ELSE stored
        /\ fred_data' = [hit |-> fad.hit, requests |-> fad.requests,
                         data |-> fad.data]
        /\ labor_response' = [done |-> TRUE,
                              out |-> get_labor_market(FRED_API_KEY, fad)]
        /\ UNCHANGED <<now, res, FRED_API_KEY>>

\* The process is started again with another environment; the cache
\* directory stays.
Restart(api_key) ==
    /\ api_key # FRED_API_KEY
    /\ FRED_API_KEY' = api_key
    /\ fred_data' = NoFredData
    /\ labor_response' = NotRun
    /\ UNCHANGED cacheVars

Elapse ==
    /\ now < MaxHalfDays * HalfDay
    /\ now' = now + HalfDay
    /\ UNCHANGED <<files, stored, res>>

NextFred ==
    \/ \E rs \in [1..Len(FRED_SERIES) -> FredResponses] :
          GetLaborMarket(rs) /\ UNCHANGED fredFrame
    \/ \E api_key \in ApiKeys : Restart(api_key) /\ UNCHANGED fredFrame
    \/ Elapse /\ UNCHANGED <<fredVars, fredFrame>>
InitFredSpec == InitFredRest /\ InitFredInputs
SpecFred == InitFredSpec /\ [][NextFred]_vars

SlotsOf(d) == {d.items[i] : i \in 1..Len(d.items)}
Unconfigured(slot) ==
    /\ dict_get(slot, "\"error\"") = Atom("\"FRED_API_KEY not configured\"")
    /\ dict_get(slot, "\"observations\"") = List(<<>>)

\* C18: while no FRED key is configured a request to the endpoint sends
\* nothing to the service; every series it then fetches (the cache not
\* having answered) has an empty observation list and the error
\* "FRED_API_KEY not configured" in its own slot, and the labor slots reach
\* the response as they are; the response is produced and its api_configured
\* flag is false, as it is true whenever a key is configured.
UnconfiguredProvider ==
    labor_response.done =>
        /\ labor_response.out.kind = "value"
        /\ labor_response.out.api_configured = (FRED_API_KEY # "")
        /\ SlotsOf(labor_response.out.labor_market) \subseteq SlotsOf(fred_data.data)
        /\ FRED_API_KEY = "" =>
              /\ fred_data.requests = 0
              /\ ~fred_data.hit =>
                    /\ Len(fred_data.data.items) = Len(FRED_SERIES)
                    /\ \A slot \in SlotsOf(fred_data.data) : Unconfigured(slot)
                    /\ \E slot \in SlotsOf(labor_response.out.labor_market) :
                          Unconfigured(slot)
UnconfiguredProviderWitness ==
    /\ labor_response.done
    /\ FRED_API_KEY = ""
    /\ ~fred_data.hit
    /\ now > 0
    /\ labor_response.out.kind = "value"
    /\ ~labor_response.out.api_configured
    /\ labor_response.out.labor_market.keys = <<"\"unemployment_rate\"">>
    /\ Unconfigured(labor_response.out.labor_market.items[1])

(***************************************************************************)
(* blueprints/housing.py: the first half of a permit request, from the     *)
(* cache lookup to process_permits (fetch_permits_cached, the refresh path *)
(* of get_residential_permits, get_analytics).  A feed's answer is the     *)
(* features it delivered and whether a request to it failed; the merged    *)
(* collection is a JSON document, which is what the cache stores.  The     *)
(* query filters and the memoized area-plan and bus-stop lookups are left  *)
(* aside.  A process can be killed while it stores, which leaves the file  *)
(* truncated.                                                              *)
(***************************************************************************)
permits_cache_key == "k1"

FeedOk(fs) == [failed |-> FALSE, features |-> fs]
FeedFailed(fs) == [failed |-> TRUE, features |-> fs]
Permit(permitnum, src) == [permitnum |-> permitnum, src |-> src]
\* The paginated feed fails on its first page or after one.
BuildingFeeds ==
    {FeedOk(<<>>), FeedOk(<<Permit("A", "building")>>),
     FeedOk(<<Permit("A", "building"), Permit("B", "building")>>),
     FeedFailed(<<>>), FeedFailed(<<Permit("A", "building")>>)}
AduFeeds ==
    {FeedOk(<<>>), FeedOk(<<Permit("B", "adu")>>),
     FeedOk(<<Permit("B", "adu"), Permit("None", "adu")>>), FeedFailed(<<>>)}

\* What the two fetch functions hand back: the pages collected before the
\* loop ended; the feed's features, none when the request failed.
fetch_historical_permits(b) == b.features
fetch_adu_permits(a) == IF a.failed THEN <<>> ELSE a.features

\* A feature as a JSON value and back.  A feature without a permit number
\* has no "permitnum" member; .get reads it as None.
Quoted ==
    ("A" :> "\"A\"") @@ ("B" :> "\"B\"") @@ ("C" :> "\"C\"")
        @@ ("building" :> "\"building\"") @@ ("adu" :> "\"adu\"")
Unquoted(tok) == CHOOSE str \in DOMAIN Quoted : Quoted[str] = tok
feature_json(f) ==
    Dict(<<"\"properties\"">>,
         <<IF f.permitnum = "None"
           THEN Dict(<<"\"src\"">>, <<Atom(Quoted[f.src])>>)
           ELSE Dict(<<"\"permitnum\"", "\"src\"">>,
                     <<Atom(Quoted[f.permitnum]), Atom(Quoted[f.src])>>)>>)
feature_of(v) ==
    LET properties == dict_get(v, "\"properties\"")
        permitnum == dict_get(properties, "\"permitnum\"")
    IN  Permit(IF permitnum = Atom("null") THEN "None" ELSE Unquoted(permitnum.a),
               Unquoted(dict_get(properties, "\"src\"").a))
FeatureCollectionOf(fs) ==
    Dict(<<"\"type\"", "\"features\"">>,
         <<Atom("\"FeatureCollection\""),
           List([i \in 1..Len(fs) |-> feature_json(fs[i])])>>)
features_of(doc) ==
    LET fs == dict_get(doc, "\"features\"").items
    IN  [i \in 1..Len(fs) |-> feature_of(fs[i])]

\* The fields process_permits reads of a feature of the feeds above.
fields_of(f) ==
    IF f = Permit("A", "building") THEN F_Single
    ELSE IF f = Permit("B", "building") THEN F_Duplex
    ELSE Feature("dict", [EmptyProps EXCEPT !.permitnum = f.permitnum],
                 "absent", "absent", NoPoint)
process_collection(doc) ==
    LET fs == features_of(doc)
    IN  process_permits([i \in 1..Len(fs) |-> fields_of(fs[i])])

\* The result of the first half of a request: the collection handed on (or
\* an exception), the files left, and the calls made, in order.
Flow(kind, path, steps, data, fs) ==
    [kind |-> kind, path |-> path, steps |-> steps, data |-> data, fs |-> fs]
merged_collection(b, a) ==
    FeatureCollectionOf(merge_permit_sources(fetch_historical_permits(b),
                                             fetch_adu_permits(a)))
FetchSteps == <<"fetch_historical_permits", "fetch_adu_permits", "merge_permit_sources">>

\* Variants with a slip: the merged set is not stored; the cache is not
\* consulted.
fetch_permits_cached_no_store(b, a) ==
    LET cached == load_from_cache(permits_cache_key, DEFAULT_CACHE_DURATION_HOURS)
    IN  IF cached.kind = "raise"
        THEN Flow("raise", "raise", <<"load_from_cache">>, NoVal, files)
        ELSE IF cached.kind = "value" /\ truthy(cached.val)
        THEN Flow("value", "hit", <<"load_from_cache">>, cached.val, files)
        ELSE Flow("value", "miss",
                  <<"load_from_cache">> \o FetchSteps \o <<"save_to_cache">>,
                  merged_collection(b, a), files)

fetch_permits_cached(b, a) ==
    LET cached == load_from_cache(permits_cache_key, DEFAULT_CACHE_DURATION_HOURS)
        merged_ == merged_collection(b, a)
    IN  IF cached.kind = "raise"
        THEN Flow("raise", "raise", <<"load_from_cache">>, NoVal, files)
        ELSE IF cached.kind = "value" /\ truthy(cached.val)
        THEN Flow("value", "hit", <<"load_from_cache">>, cached.val, files)
        ELSE Flow("value", "miss",
                  <<"load_from_cache">> \o FetchSteps \o <<"save_to_cache">>,
                  merged_, save_to_cache(files, permits_cache_key, merged_))

\* A variant with a slip: the refreshed collection is not stored.
refresh_path_no_store(b, a) ==
    Flow("value", "refresh", FetchSteps \o <<"save_to_cache">>,
         merged_collection(b, a), files)

\* get_residential_permits with refresh=true.
refresh_path(b, a) ==
    LET merged_ == merged_collection(b, a)
    IN  Flow("value", "refresh", FetchSteps \o <<"save_to_cache">>, merged_,
             save_to_cache(files, permits_cache_key, merged_))

\* A request up to and including process_permits.
PermitRequest(endpoint, refresh, flow, b, a) ==
    /\ files' = flow.fs
    /\ stored' = IF "save_to_cache" \in {flow.steps[i] : i \in 1..Len(flow.steps)}
                 THEN [stored EXCEPT ![permits_cache_key] = Saved(flow.data)]
                 ELSE stored
    /\ req_trace' =
          [endpoint |-> endpoint, path |-> flow.path,
           steps |-> IF flow.kind = "raise" THEN flow.steps
                     ELSE flow.steps \o <<"process_permits">>,
           failed |-> flow.path \in {"miss", "refresh"} /\ (b.failed \/ a.failed),
           data |-> flow.data]
    /\ req_response' =
          [done |-> TRUE,
           out |-> IF flow.kind = "raise" THEN Raise
                   ELSE process_collection(flow.data)]
    /\ req_refresh' =
          IF refresh
          THEN [last |-> TRUE, set |-> TRUE,
                over |-> is_cache_valid(get_cache_path(permits_cache_key),
                                        DEFAULT_CACHE_DURATION_HOURS),
                data |-> flow.data]
          ELSE IF flow.path = "miss" THEN NoRefresh
          ELSE [req_refresh EXCEPT !.last = FALSE]
    /\ UNCHANGED <<now, res>>

GetResidentialPermits(refresh, b, a) ==
    PermitRequest("get_residential_permits", refresh,
                  IF refresh THEN refresh_path(b, a) ELSE fetch_permits_cached(b, a),
                  b, a)
GetAnalytics(b, a) ==
    PermitRequest("get_analytics", FALSE, fetch_permits_cached(b, a), b, a)

\* The process is killed inside save_to_cache, after `cut` tokens reached
\* the file: none, one, or all but the last.
KilledWhileStoring(refresh, b, a, cut) ==
    LET cache_path == get_cache_path(permits_cache_key)
        toks == Dump(merged_collection(b, a))
    IN  /\ refresh \/ load_from_cache(permits_cache_key,
                                      DEFAULT_CACHE_DURATION_HOURS).kind = "none"
        /\ cut \in {0, 1, Len(toks) - 1}
        /\ files' = write_at(open_w(files, cache_path), cache_path, 0,
                             SubSeq(toks, 1, cut))
        /\ stored' = [stored EXCEPT ![permits_cache_key] = Partial]
        /\ req_trace' = NoTrace
        /\ req_response' = NotRun
        /\ req_refresh' = NoRefresh
        /\ UNCHANGED <<now, res>>

NextReq ==
    \/ \E refresh \in BOOLEAN, b \in BuildingFeeds, a \in AduFeeds :
          GetResidentialPermits(refresh, b, a) /\ UNCHANGED reqFrame
    \/ \E b \in BuildingFeeds, a \in AduFeeds :
          GetAnalytics(b, a) /\ UNCHANGED reqFrame
    \/ \E refresh \in BOOLEAN, b \in BuildingFeeds, a \in AduFeeds :
          \E cut \in {0, 1, Len(Dump(merged_collection(b, a))) - 1} :
              KilledWhileStoring(refresh, b, a, cut) /\ UNCHANGED reqFrame
    \/ Elapse /\ UNCHANGED <<reqVars, reqFrame>>
InitReqSpec == InitReqRest /\ InitReq
SpecReq == InitReqSpec /\ [][NextReq]_vars

Held == json_load(files[get_cache_path(permits_cache_key)].content)
Stepped(step) == step \in {req_trace.steps[i] : i \in 1..Len(req_trace.steps)}

\* C15: a request on which a call to a feed failed writes no cache entry.
StoreOnlyAfterSuccess ==
    (req_response.done /\ req_trace.failed) => ~Stepped("save_to_cache")

\* C20: a request that finds the entry calls no feed and hands the cached
\* collection to process_permits; one that finds none calls both feeds,
\* merges, stores and then processes; either way process_permits runs on
\* the collection and that collection is what the cache file holds when the
\* request ends.  A refresh skips the lookup and otherwise goes as a miss.
RequestControlFlow ==
    req_response.done =>
        /\ req_trace.path = "hit" =>
              req_trace.steps = <<"load_from_cache", "process_permits">>
        /\ req_trace.path = "miss" =>
              req_trace.steps =
                  <<"load_from_cache">> \o FetchSteps
                      \o <<"save_to_cache", "process_permits">>
        /\ req_trace.path = "refresh" =>
              req_trace.steps = FetchSteps \o <<"save_to_cache", "process_permits">>
        /\ req_trace.path \in {"hit", "miss", "refresh"} =>
              /\ req_response.out = process_collection(req_trace.data)
              /\ req_response.out.kind = "value"
              /\ req_response.out.total_count =
                    Len(dict_get(req_trace.data, "\"features\"").items)
              /\ Held = RetValue(req_trace.data)
RequestControlFlowWitness ==
    /\ req_response.done
    /\ req_trace.endpoint = "get_analytics"
    /\ req_trace.path = "hit"
    /\ now > 0
    /\ req_response.out.kind = "value"
    /\ req_response.out.total_count = 3
    /\ Held = RetValue(req_trace.data)

(***************************************************************************)
(* shared/cache.py: what a read leaves behind.                             *)
(***************************************************************************)
\* C28: a load_from_cache step, hit or miss, leaves every file as it was
\* (content and modification time) and with it what every later read
\* returns for every key and duration: a hit does not renew the entry and a
\* stale read does not remove it.
LoadFrame ==
    [][(res'.op = "load" /\ now' = now) =>
          /\ files' = files
          /\ stored' = stored
          /\ \A k \in Keys, d \in Durations :
                load_from_cache(k, d)' = load_from_cache(k, d)]_vars
\* A read has just missed on an entry that a read with a longer duration
\* returns at the same instant.
LoadFrameWitness ==
    /\ res.op = "load"
    /\ res.out = RetNone
    /\ stored[res.key].kind = "saved"
    /\ now > stored[res.key].at
    /\ files[get_cache_path(res.key)].mtime = stored[res.key].at
    /\ \E d \in Durations :
          /\ d > res.dur
          /\ load_from_cache(res.key, d) = RetValue(stored[res.key].v)

(***************************************************************************)
(* shared/geography.py: the ring of the zone a point is assigned, as       *)
(* process_permits derives it.                                             *)
(***************************************************************************)
Rings == {"Downtown", "Near Downtown", "Inner Suburb", "Outer Suburb"}

\* C29: every zone of the center table has a ring, and the ring of the zone
\* get_zip_for_coords answered is "Unknown" exactly when it answered none.
AssignedZoneHasRing ==
    /\ \A i \in 1..Len(ZIP_CODE_CENTERS) :
          get_urban_ring(ZIP_CODE_CENTERS[i].zip) \in Rings
    /\ zip_code.done =>
          /\ get_urban_ring(zip_code.zip) = "Unknown" <=> zip_code.zip = NoZip
          /\ zip_code.zip # NoZip => get_urban_ring(zip_code.zip) \in Rings
AssignedZoneHasRingWitness ==
    /\ zip_code.done
    /\ zip_code.zip = "27617"
    /\ get_urban_ring(zip_code.zip) = "Outer Suburb"

(***************************************************************************)
(* blueprints/housing.py: classify_housing_type, when it answers Unknown.  *)
(***************************************************************************)
\* The unit count is absent, null, zero or a positive whole number.
OrdinaryCount ==
    \/ props.housingunitstotal \in {Absent, Null}
    \/ /\ props.housingunitstotal.kind = "num"
       /\ props.housingunitstotal.h >= 0
       /\ props.housingunitstotal.h % 2 = 0
NoStringMatch ==
    /\ props.adu_type \in NotAduMarkers
    /\ props.workclass \in OtherWorkClasses
    /\ props.occupancyclass \in OtherOccupancies

\* C30: a record whose unit count is absent, null, zero or a positive whole
\* number is never Unknown; with the count absent, null or zero and no ADU
\* marker, work class or occupancy matching, it is Single Family; Unknown
\* is answered only for a negative or fractional count.
UnknownOnlyForOddCounts ==
    housing_type.done =>
        /\ OrdinaryCount => housing_type.label # "Unknown"
        /\ (NoStringMatch /\ props.housingunitstotal \in {Absent, Null, Num(0)})
              => housing_type.label = "Single Family"
        /\ housing_type.label = "Unknown" =>
              /\ props.housingunitstotal.kind = "num"
              /\ \/ props.housingunitstotal.h < 0
                 \/ props.housingunitstotal.h % 2 = 1
UnknownOnlyForOddCountsWitness ==
    /\ housing_type.done
    /\ NoStringMatch
    /\ props.housingunitstotal = Num(0)
    /\ props.workclass = Str(W_Other)
    /\ props.occupancyclass = Str(O_R2)
    /\ housing_type.label = "Single Family"

(***************************************************************************)
(* shared/geography.py: calculate_transit_score as the distance to the     *)
(* center grows.                                                           *)
(***************************************************************************)
\* The linear segment of the distance component a distance (in tenths of a
\* mile) lies in: up to 1, 3, 6 and 10 miles, and beyond.
Segment(d) ==
    IF d <= 10 THEN 1 ELSE IF d <= 30 THEN 2 ELSE IF d <= 60 THEN 3
    ELSE IF d <= 100 THEN 4 ELSE 5
Farther == {d \in dist_to_downtown..(10 * MaxMiles) :
               Segment(d) = Segment(dist_to_downtown)}

\* C24: with the corridor distance held, a point farther from the center
\* but within the same segment of the distance component scores no higher,
\* the density-bonus steps at 2, 5, 8 and 12 miles included.
ScoreMonotoneInSegment ==
    (transit_score.done /\ transit_score.score # NoScore) =>
        \A d \in Farther :
            calculate_transit_score(lat, lng, d, min_dist) <= transit_score.score
\* A point just short of the bonus step at 2 miles, inside the segment from
\* 1 to 3 miles, scores strictly more than the point just past the step.
ScoreMonotoneWitness ==
    /\ transit_score.done
    /\ transit_score.score # NoScore
    /\ dist_to_downtown = 20
    /\ min_dist = 10
    /\ 21 \in Farther
    /\ calculate_transit_score(lat, lng, 21, min_dist) < transit_score.score

(***************************************************************************)
(* blueprints/housing.py: the reference feeds, kept in memory for the life *)
(* of the process.                                                         *)
(***************************************************************************)
\* What a call of a memoizing fetch function does, given the memo before
\* and after: answered from the memo without a request, or one request, of
\* which a document is kept and returned and a failure gives the empty
\* collection and keeps nothing.
MemoCall(before, after) ==
    IF before # NoMemo
    THEN /\ received' = <<>>
         /\ fetch_out' = FeatureCollection(before)
         /\ after = before
    ELSE /\ Len(received') = 1
         /\ received'[1] = "error" =>
               /\ fetch_out' = FeatureCollection(0)
               /\ after = NoMemo
         /\ received'[1] # "error" =>
               /\ after # NoMemo
               /\ fetch_out' = FeatureCollection(after)

\* C23: once fetch_area_plans (or fetch_bus_stops) has fetched a document,
\* every later call returns it and sends no request, and nothing else
\* changes it; a failed fetch returns the empty collection and keeps
\* nothing, so the next call sends a request again.
FetchedOncePerProcess ==
    [][/\ area_plans_cache # NoMemo => area_plans_cache' = area_plans_cache
       /\ bus_stops_cache # NoMemo => bus_stops_cache' = bus_stops_cache
       /\ fetch_fn' = "fetch_area_plans" =>
             /\ MemoCall(area_plans_cache, area_plans_cache')
             /\ bus_stops_cache' = bus_stops_cache
       /\ fetch_fn' = "fetch_bus_stops" =>
             /\ MemoCall(bus_stops_cache, bus_stops_cache')
             /\ area_plans_cache' = area_plans_cache
       /\ fetch_fn' \notin {"fetch_area_plans", "fetch_bus_stops"} =>
             UNCHANGED <<area_plans_cache, bus_stops_cache>>]_vars
\* A call answered from memory, the other feed not fetched yet.
FetchedOnceWitness ==
    /\ fetch_fn = "fetch_area_plans"
    /\ fetch_pc = "done"
    /\ received = <<>>
    /\ area_plans_cache = MaxFeatures
    /\ fetch_out = FeatureCollection(area_plans_cache)
    /\ bus_stops_cache = NoMemo

(***************************************************************************)
(* blueprints/housing.py: a refresh and the requests after it.             *)
(***************************************************************************)
Fresh ==
    is_cache_valid(get_cache_path(permits_cache_key), DEFAULT_CACHE_DURATION_HOURS)

zbp_cache_key == "k2"
zbp_duration_hours == 168
ZbpZips == <<"27601", "27603">>

\* What the Census service answers for one zip code: an exception, a status
\* other than 200, a document with the header row alone, or one with a data
\* row of three strings (ESTAB, EMP, PAYANN).
ZbpFailed(status) == [status |-> status, rows |-> <<>>]
ZbpOk(rows) == [status |-> "ok", rows |-> rows]
ZbpHeader == <<<<"E">>, <<"M">>, <<"P">>>>
ZbpResponses ==
    {ZbpFailed("network_error"), ZbpFailed("http_error"), ZbpOk(<<ZbpHeader>>),
     ZbpOk(<<ZbpHeader, <<<<"1">>, <<"2">>, <<>>>>>>),
     ZbpOk(<<ZbpHeader, <<<<"1">>, <<"N">>, <<"2">>>>>>)}

\* json.dump of a small whole number and of the strings above.
NumTok == (0 :> "0") @@ (1 :> "1") @@ (2 :> "2")
ZbpTok ==
    ("27601" :> "\"27601\"") @@ ("27603" :> "\"27603\"")
        @@ ("Downtown" :> "\"Downtown\"") @@ ("Near Downtown" :> "\"Near Downtown\"")

\* int(row[i]) if row[i] else 0
int_or_zero(field) == IF field = <<>> THEN 0 ELSE int(field)

\* The entry of result for one zip code, none when the request failed, the
\* status was not 200, the document had no data row or int() raised.
zbp_entry(zip, r) ==
    IF r.status # "ok" \/ Len(r.rows) <= 1 THEN <<>>
    ELSE LET row == r.rows[2]
         IN  IF \E i \in 1..3 : row[i] # <<>> /\ int_raises(row[i]) THEN <<>>
             ELSE <<Dict(<<"\"establishments\"", "\"employees\"", "\"payroll\"",
                           "\"urban_ring\"">>,
                         <<Atom(NumTok[int_or_zero(row[1])]),
                           Atom(NumTok[int_or_zero(row[2])]),
                           Atom(NumTok[int_or_zero(row[3])]),
                           Atom(ZbpTok[get_urban_ring(zip)])>>)>>

RECURSIVE zbp_result(_, _)
zbp_result(rs, i) ==
    IF i > Len(ZbpZips) THEN Dict(<<>>, <<>>)
    ELSE LET rest == zbp_result(rs, i + 1)
             e == zbp_entry(ZbpZips[i], rs[i])
         IN  IF e = <<>> THEN rest
             ELSE Dict(<<ZbpTok[ZbpZips[i]]>> \o rest.keys, e \o rest.items)

\* What load_from_cache returned, what the call returned, the files left
\* and the requests sent.
fetch_census_cbp_zip(rs) ==
    LET cached == load_from_cache(zbp_cache_key, zbp_duration_hours)
        result == zbp_result(rs, 1)
    IN  IF cached.kind = "raise"
        THEN [cached |-> cached, out |-> RetRaise, fs |-> files, hit |-> FALSE,
              requests |-> 0]
        ELSE IF cached.kind = "value" /\ truthy(cached.val)
        THEN [cached |-> cached, out |-> cached, fs |-> files, hit |-> TRUE,
              requests |-> 0]
        ELSE [cached |-> cached, out |-> RetValue(result),
              fs |-> save_to_cache(files, zbp_cache_key, result), hit |-> FALSE,
              requests |-> Len(ZbpZips)]

FetchCensusCbpZip(rs) ==
    LET call == fetch_census_cbp_zip(rs)
    IN  /\ files' = call.fs
        /\ stored' = IF call.out.kind = "value" /\ ~call.hit
                     THEN [stored EXCEPT ![zbp_cache_key] = Saved(call.out.val)]
                     ELSE stored
        /\ zbp_call' = [done |-> TRUE, calls |-> (zbp_call.calls + 1) % 2,
                        cached |-> call.cached, hit |-> call.hit,
                        requests |-> call.requests, out |-> call.out]
        /\ UNCHANGED <<now, res>>

\* The JSON values that are false in Python, and one that is not.
EmptyPayloads == {Dict(<<>>, <<>>), List(<<>>), Atom("0"), Atom("null")}
OtherPayloads == EmptyPayloads \cup {List(<<Atom("0")>>)}

NextZbp ==
    \/ \E rs \in [1..Len(ZbpZips) -> ZbpResponses] :
          FetchCensusCbpZip(rs) /\ UNCHANGED zbpFrame
    \/ \E v \in OtherPayloads :
          SaveToCache(zbp_cache_key, v) /\ UNCHANGED <<zbpVars, zbpFrame>>
    \/ Elapse /\ UNCHANGED <<zbpVars, zbpFrame>>
InitZbpSpec == InitZbpRest /\ InitZbp
SpecZbp == InitZbpSpec /\ [][NextZbp]_vars

ZbpPath == get_cache_path(zbp_cache_key)

\* C27: a call that finds a valid entry whose payload is {}, [], 0 or null
\* treats it as a miss: it sends the upstream requests and stores anew; a
\* valid entry with any other payload is returned and nothing is sent.
EmptyPayloadIsMiss ==
    /\ []((zbp_call.done /\ zbp_call.cached.kind = "value") =>
            IF zbp_call.cached.val \in EmptyPayloads
            THEN /\ ~zbp_call.hit
                 /\ zbp_call.requests = Len(ZbpZips)
                 /\ zbp_call.out.kind = "value"
            ELSE /\ zbp_call.hit
                 /\ zbp_call.requests = 0
                 /\ zbp_call.out = zbp_call.cached)
    /\ [][zbp_call'.calls # zbp_call.calls =>
             /\ zbp_call'.done
             /\ zbp_call'.cached = load_from_cache(zbp_cache_key, zbp_duration_hours)
             /\ zbp_call'.hit => files' = files
             /\ (zbp_call'.cached.kind = "value" /\ ~zbp_call'.hit) =>
                    /\ files'[ZbpPath].content = Dump(zbp_call'.out.val)
                    /\ files'[ZbpPath].mtime = now
                    /\ stored'[zbp_cache_key] = Saved(zbp_call'.out.val)]_vars
\* Every request of an earlier call failed and {} was stored; half a day
\* later, well inside the seven days, the entry was read and fetched again.
EmptyPayloadWitness ==
    /\ zbp_call.done
    /\ res = NoOp
    /\ now > 0
    /\ zbp_call.cached = RetValue(Dict(<<>>, <<>>))
    /\ ~zbp_call.hit
    /\ zbp_call.requests = Len(ZbpZips)
    /\ zbp_call.out.val # Dict(<<>>, <<>>)
    /\ files[ZbpPath].mtime = now

(***************************************************************************)
(* blueprints/housing.py: the timeline of process_permits.  Each feature's *)
(* issueddate is a timestamp; it is held here in whole days since          *)
(* 1970-01-01, the server's clock being UTC.  The records with a date are  *)
(* counted per strftime("%Y-%W") label and the labels are sorted as        *)
(* strings.                                                                *)
(***************************************************************************)
MaxDates == 3

is_leap(y) == (y % 4 = 0 /\ y % 100 # 0) \/ y % 400 = 0
days_in_year(y) == IF is_leap(y) THEN 366 ELSE 365

\* datetime.fromtimestamp: the year and the day of the year (from 0).
RECURSIVE date_from(_, _)
date_from(y, d) ==
    IF d < days_in_year(y) THEN [year |-> y, yday |-> d]
    ELSE date_from(y + 1, d - days_in_year(y))
fromtimestamp(days) == date_from(1970, days)

\* date.weekday(): Monday is 0; 1970-01-01 was a Thursday.
weekday(days) == (days + 3) % 7

\* %W: the week of the year, weeks starting on Monday, the days before the
\* first Monday in week 0.
week_of_year(days) == (fromtimestamp(days).yday + 7 - weekday(days)) \div 7

RECURSIVE decimal(_)
decimal(n) ==
    IF n < 10 THEN <<Digits[n + 1]>> ELSE decimal(n \div 10) \o <<Digits[(n % 10) + 1]>>
RECURSIVE zfill(_, _)
zfill(str, width) == IF Len(str) >= width THEN str ELSE zfill(<<"0">> \o str, width)

\* issue_date.strftime("%Y-%W")
strftime_Y_W(days) ==
    zfill(decimal(fromtimestamp(days).year), 4) \o <<"-">>
        \o zfill(decimal(week_of_year(days)), 2)

\* if issue_date_ms: ... datetime.fromtimestamp(issue_date_ms / 1000), the
\* TypeError of a string caught: whether the record gets an issue date.
has_issue_date(attr) == attr.kind = "num" /\ attr.h # 0

\* The order of str: by code point, a prefix before its extensions.
ord(c) == IF c = "-" THEN 45 ELSE 48 + digit(c)
\* A variant with a slip: the later string first.
RECURSIVE str_lt_descending(_, _)
str_lt_descending(a, b) ==
    IF a = <<>> THEN FALSE
    ELSE IF b = <<>> THEN TRUE
    ELSE IF Head(a) # Head(b) THEN ord(Head(a)) > ord(Head(b))
    ELSE str_lt_descending(Tail(a), Tail(b))

RECURSIVE str_lt(_, _)
str_lt(a, b) ==
    IF b = <<>> THEN FALSE
    ELSE IF a = <<>> THEN TRUE
    ELSE IF Head(a) # Head(b) THEN ord(Head(a)) < ord(Head(b))
    ELSE str_lt(Tail(a), Tail(b))

\* sorted(timeline_data.items()): the keys are distinct, so the pairs come
\* in the order of the keys.
RECURSIVE sorted_keys(_)
sorted_keys(ks) ==
    IF ks = {} THEN <<>>
    ELSE LET least == CHOOSE k \in ks : \A o \in ks \ {k} : str_lt(k, o)
         IN  <<least>> \o sorted_keys(ks \ {least})

timeline_data(ds) ==
    LET with_date == {i \in 1..Len(ds) : has_issue_date(ds[i])}
    IN  [l \in {strftime_Y_W(ds[i].h) : i \in with_date} |->
            Cardinality({i \in with_date : strftime_Y_W(ds[i].h) = l})]

timeline_of(ds) ==
    LET td == timeline_data(ds)
        sorted_timeline == sorted_keys(DOMAIN td)
    IN  [done |-> TRUE,
         labels |-> sorted_timeline,
         values |-> [i \in 1..Len(sorted_timeline) |-> td[sorted_timeline[i]]]]

\* The dates tried: Monday 2020-12-28, Friday 2021-01-01, Sunday 2021-03-07,
\* Monday 2021-03-08 and Tuesday 2021-03-09; and fields that give no date.
IssuedSamples ==
    {Absent, Null, Num(0), Str(<<"x">>), Num(18624), Num(18628), Num(18693),
     Num(18694), Num(18695)}

InitTlInputs ==
    /\ issued \in SeqsUpTo(IssuedSamples, MaxDates)
    /\ timeline = NoTimeline

ProcessPermitsTimeline ==
    /\ ~timeline.done
    /\ timeline' = timeline_of(issued)
    /\ UNCHANGED issued

NextTl == ProcessPermitsTimeline /\ UNCHANGED tlRest
InitTlSpec == InitTlRest /\ InitTlInputs
SpecTl == InitTlSpec /\ [][NextTl]_vars

\* The records counted under the i-th label, and the records with a date.
Dated == {k \in 1..Len(issued) : has_issue_date(issued[k])}
Bucket(i) ==
    {k \in Dated :
        /\ fromtimestamp(issued[k].h).year = int(SubSeq(timeline.labels[i], 1, 4))
        /\ week_of_year(issued[k].h) = int(SubSeq(timeline.labels[i], 6, 7))}
RECURSIVE SumSeq(_)
SumSeq(q) == IF q = <<>> THEN 0 ELSE Head(q) + SumSeq(Tail(q))

\* C26: the timeline is in chronological order: labels and values have the
\* same length, the labels are distinct year-week buckets, every record of
\* an earlier label was issued before every record of a later label,
\* values[i] is the number of records in the bucket of labels[i], and the
\* values sum to the number of records with a valid issue date.
TimelineChronological ==
    timeline.done =>
        /\ Len(timeline.labels) = Len(timeline.values)
        /\ \A i, j \in 1..Len(timeline.labels) :
              i < j =>
                 /\ timeline.labels[i] # timeline.labels[j]
                 /\ \A a \in Bucket(i), b \in Bucket(j) : issued[a].h < issued[b].h
        /\ \A i \in 1..Len(timeline.labels) :
              /\ Len(timeline.labels[i]) = 7
              /\ timeline.labels[i][5] = "-"
              /\ Bucket(i) # {}
              /\ timeline.values[i] = Cardinality(Bucket(i))
        /\ SumSeq(timeline.values) = Cardinality(Dated)
\* Records given out of order, in week 10 and week 9 of 2021 and the last
\* week of 2020, one record without a date aside.
TimelineWitness ==
    /\ timeline.done
    /\ Len(issued) = MaxDates
    /\ issued[1] = Num(18694)
    /\ issued[2] = Num(18693)
    /\ Cardinality(Dated) = 2
    /\ timeline.labels = <<<<"2", "0", "2", "1", "-", "0", "9">>,
                           <<"2", "0", "2", "1", "-", "1", "0">>>>
    /\ timeline.values = <<1, 1>>

====
